---- MODULE Spec2Model ----
(***************************************************************************)
(* Verification model of the Twitch -> YouTube content automation          *)
(* pipeline (jiggy2204/contentautomation).                                  *)
(*                                                                         *)
(* The specifications of this module share its variables:                  *)
(*   Spec       VOD discovery scans and the live-status detector           *)
(*   SpecScan   VOD discovery scans over full listings                     *)
(*   SpecDl     download scans interleaved with discovery scans            *)
(*   SpecBatch  download scans whose storage writes can raise              *)
(*   SpecCrash  download scans of a process that can stop and restart      *)
(*   SpecSched  SchedulingOptimizer: upload times of a stream's content    *)
(*   SpecMatch  candidate matching of the IGDB and RAWG lookups            *)
(*   SpecMeta   game metadata resolver (Twitch -> IGDB -> RAWG + cache)    *)
(*   SpecResolve  one resolver call and the answers of its providers       *)
(*   SpecPub    upload preparation, upload and publish scans               *)
(*   SpecPubFair  SpecPub with a clock that runs on and scans that recur   *)
(*   SpecUp     upload scans run by two processes at once                  *)
(*   SpecUpSeq  upload scans of a single process                           *)
(*   SpecMorning  the morning pipeline of main.py, step by step            *)
(*   SpecDriver  the six steps of main.py and the polls, scans that raise  *)
(*   SpecLive   the live-status detector polling a real broadcast          *)
(*   SpecLiveFair  SpecLive with polls that recur                          *)
(*   SpecManager  UploadManager: completed-stream scans and its worker     *)
(***************************************************************************)
EXTENDS Integers, Sequences, FiniteSets, TLC

VARIABLES
    \* ---- persisted tables and detector memory (Spec) ----
    streams,            \* table 'streams': sequence of rows, row id = index
    downloads,          \* table 'vod_downloads': sequence of rows, row id = index
    jobs,               \* table 'processing_jobs': sequence of rows
    current_stream_id,  \* StreamDetector.current_stream_id (0 = None)
    last_known_state,   \* StreamDetector.last_known_state (Twitch stream id or None)
    new_vods,           \* process_new_vods: the VODs of its returned list, in order
    pending,            \* process_pending_downloads: rows of the running scan still to visit
    localFiles,         \* download ids whose temp file is on local disk
    spaces,             \* download ids whose file is in object storage
    lastDl,             \* inputs of the most recent download_vod call
    \* ---- SchedulingOptimizer.schedule_content_uploads (SpecSched) ----
    stream_ended,       \* ended_at of the stream being scheduled
    vod_time,           \* the upload time chosen for its VOD
    shorts_schedule,    \* the upload slots chosen for its clips
    sched_outcome,      \* how the call ended: None, "scheduled" or "error"
    \* ---- one provider lookup of GameMetadataHandler (SpecMatch) ----
    search,             \* the lookup: game name, provider answer, RAWG key set
    found,              \* the provider asked and the metadata it returned
    \* ---- GameMetadataHandler.fetch_game_metadata (SpecMeta) ----
    handler,            \* construction: twitch_handler given, RAWG_API_KEY set
    game_metadata,      \* table 'game_metadata': the cached rows
    resolution,         \* the most recent fetch_game_metadata call and its result
    \* ---- upload preparation, upload and publishing (SpecPub) ----
    uploads,            \* table 'youtube_uploads': sequence of rows, row id = index
    youtube,            \* the videos on YouTube: sequence, video id = index
    alerts,             \* the send_metadata_failure_alert calls made, in order
    runs,               \* the process_queued_uploads calls in progress, by process
    now,                \* datetime.now() of the server: minutes from day 0 00:00
    server_utcoffset,   \* UTC offset of the server's local time, minutes
    \* ---- AutomationOrchestrator.run_morning_pipeline (SpecMorning) ----
    morning,            \* the step the running pipeline is at, and the last run's stats
    running,            \* StreamDetector.running: the monitoring loop is polling
    \* ---- the channel on Twitch (SpecLive) ----
    broadcast,          \* the broadcast that is live now, and the broadcasts so far
    \* ---- UploadManager (SpecManager) ----
    manager,            \* UploadManager.upload_queue and the job its worker is at
    processed_at,       \* ids of the stream rows whose processed_at is set
    table_uploads       \* table 'uploads': sequence of rows

discVars == <<streams, downloads, jobs, current_stream_id, last_known_state,
              new_vods, pending, localFiles, spaces, lastDl>>

schedVars == <<stream_ended, vod_time, shorts_schedule, sched_outcome>>
matchVars == <<search, found>>
metaVars == <<handler, game_metadata, resolution>>

pubVars == <<uploads, youtube, alerts, runs, now, server_utcoffset>>

umVars == <<manager, processed_at, table_uploads>>

mgrVars == <<morning, broadcast, running, umVars>>

\* the variables outside discovery, detection and download
offDisc == <<schedVars, matchVars, metaVars, pubVars, mgrVars>>

vars == <<discVars, schedVars, matchVars, metaVars, pubVars, mgrVars>>

None == "none"

(***************************************************************************)
(* Bounds of the model                                                     *)
(***************************************************************************)
MaxStreams == 3     \* Spec: rows of 'streams' the scans and polls may create
MaxListing == 2     \* Spec, SpecDl: VODs in one listing
MaxScanRows == 4    \* SpecScan: rows of 'streams' the scans may create
MaxDownloads == 2   \* SpecDl: rows of 'streams' the scans may create

(***************************************************************************)
(* The Twitch side: two id spaces.  A broadcast has a stream id while it   *)
(* is live (get_streams) and its archive has a video id (helix/videos).    *)
(***************************************************************************)
StreamIds == {"101", "102"}
VodIds == {"901", "902", "903"}

\* the archive video of each live broadcast
VodOfStream(s) == IF s = "101" THEN "901" ELSE "902"

\* created_at of each VOD as the fields of its ISO-8601 text <<day, hour>>
created_at(v) ==
    CASE v = "901" -> <<1, 20>>
      [] v = "902" -> <<2, 3>>
      [] OTHER     -> <<2, 15>>

\* the instant an ISO text denotes (hours)
Instant(t) == t[1] * 24 + t[2]

\* Python's str comparison of two isoformat() texts of the same layout:
\* field by field, most significant first
IsoLess(a, b) == a[1] < b[1] \/ (a[1] = b[1] /\ a[2] < b[2])

(***************************************************************************)
(* Storage layer                                                           *)
(***************************************************************************)
\* SupabaseClient.get_stream_by_twitch_id: first row whose twitch_stream_id
\* column equals the argument, 0 when there is none
get_stream_by_twitch_id(ss, key) ==
    IF \E i \in 1..Len(ss) : ss[i].twitch_stream_id = key
    THEN CHOOSE i \in 1..Len(ss) :
            /\ ss[i].twitch_stream_id = key
            /\ \A j \in 1..(i - 1) : ss[j].twitch_stream_id # key
    ELSE 0

\* twitch_handler.py: the stream_data row built for a discovered VOD
VodStreamRow(v) ==
    [twitch_stream_id |-> "vod_" \o v, twitch_vod_id |-> v,
     status |-> None, stream_status |-> "vod_available",
     started_at |-> created_at(v), ended_at |-> created_at(v)]

\* database.py create_stream: the row the live detector inserts
LiveStreamRow(s) ==
    [twitch_stream_id |-> s, twitch_vod_id |-> None,
     status |-> "live", stream_status |-> None,
     started_at |-> <<0, 0>>, ended_at |-> None]

\* supabase_client.py create_vod_download
create_vod_download(dl, stream_id) ==
    Append(dl, [stream_id |-> stream_id, download_status |-> "pending",
                error_message |-> None, file_path |-> None, file_size_mb |-> 0])

\* database.py create_processing_job
create_processing_job(js, stream_id, job_type) ==
    Append(js, [stream_id |-> stream_id, job_type |-> job_type,
                status |-> "pending", attempts |-> 0, max_attempts |-> 3])

(***************************************************************************)
(* TwitchHandler.process_new_vods                                          *)
(***************************************************************************)
\* every listing get_recent_vods can return: distinct VODs in any order
Listings ==
    {l \in UNION {[1..n -> VodIds] : n \in 0..Cardinality(VodIds)} :
        \A i, j \in DOMAIN l : i # j => l[i] # l[j]}

\* storage outcome of handling one VOD: both inserts succeed, create_stream
\* raises, or create_vod_download raises after the stream row was stored
InsertOutcomes == {"ok", "stream_fail", "download_fail"}

RECURSIVE InsertSorted(_, _)
InsertSorted(sorted, v) ==
    IF sorted = <<>> THEN <<v>>
    ELSE IF IsoLess(created_at(v), created_at(Head(sorted)))
         THEN <<v>> \o sorted
         ELSE <<Head(sorted)>> \o InsertSorted(Tail(sorted), v)

\* a sort that keeps the order of the listing
sort_unsorted(seq) == seq

\* unprocessed.sort(key=lambda v: v['created_at']): stable, ascending
RECURSIVE sort_by_created_at(_)
sort_by_created_at(seq) ==
    IF seq = <<>> THEN <<>>
    ELSE InsertSorted(sort_by_created_at(SubSeq(seq, 1, Len(seq) - 1)), seq[Len(seq)])

\* the filter loop: VODs for which get_stream_by_twitch_id finds no row
filter_unprocessed(ss, vods) ==
    SelectSeq(vods, LAMBDA v : get_stream_by_twitch_id(ss, v) = 0)

\* the creation loop over the sorted unprocessed VODs; an exception while
\* handling one VOD is caught and the loop continues
RECURSIVE create_records(_, _, _, _, _)
create_records(todo, ss, dl, nv, outcome) ==
    IF todo = <<>> THEN <<ss, dl, nv>>
    ELSE LET v == Head(todo)
             ss2 == Append(ss, VodStreamRow(v))
         IN CASE outcome[v] = "stream_fail" ->
                    create_records(Tail(todo), ss, dl, nv, outcome)
              [] outcome[v] = "download_fail" ->
                    create_records(Tail(todo), ss2, dl, nv, outcome)
              [] OTHER ->
                    create_records(Tail(todo), ss2, create_vod_download(dl, Len(ss2)),
                                   Append(nv, v), outcome)

\* the VODs of a listing
Listed(vods) == {vods[i] : i \in DOMAIN vods}

process_new_vods(vods, outcome) ==
    /\ LET unprocessed == filter_unprocessed(streams, vods)
           res == create_records(sort_by_created_at(unprocessed),
                                 streams, downloads, <<>>, outcome)
       IN /\ streams' = res[1]
          /\ downloads' = res[2]
          /\ new_vods' = res[3]
    /\ UNCHANGED <<jobs, current_stream_id, last_known_state, pending,
                   localFiles, spaces, lastDl>>
    /\ UNCHANGED offDisc

(***************************************************************************)
(* StreamDetector (live-status poll)                                       *)
(***************************************************************************)
\* storage outcome of one poll: every call works, or the insert of the
\* stream row / the update of the ended stream raises
PollOutcomes == {"ok", "insert_fail", "update_fail"}

\* database.py update_stream_ended
update_stream_ended(ss, id) ==
    [ss EXCEPT ![id] = [@ EXCEPT !.status = "ended", !.ended_at = "now"]]

\* handle_stream_started with the re-attach branch resetting the row to live
handle_stream_started_relive(info, db) ==
    LET existing == get_stream_by_twitch_id(streams, info)
    IN IF existing # 0
       THEN /\ current_stream_id' = existing
            /\ last_known_state' = info
            /\ streams' = [streams EXCEPT ![existing].status = "live"]
            /\ UNCHANGED jobs
       ELSE IF db = "insert_fail"
       THEN UNCHANGED <<streams, jobs, current_stream_id, last_known_state>>
       ELSE /\ streams' = Append(streams, LiveStreamRow(info))
            /\ current_stream_id' = Len(streams) + 1
            /\ last_known_state' = info
            /\ jobs' = create_processing_job(jobs, Len(streams) + 1, "vod_download")

handle_stream_started(info, db) ==
    LET existing == get_stream_by_twitch_id(streams, info)
    IN IF existing # 0
       THEN /\ current_stream_id' = existing
            /\ last_known_state' = info
            /\ UNCHANGED <<streams, jobs>>
       ELSE IF db = "insert_fail"
       THEN UNCHANGED <<streams, jobs, current_stream_id, last_known_state>>
       ELSE /\ streams' = Append(streams, LiveStreamRow(info))
            /\ current_stream_id' = Len(streams) + 1
            /\ last_known_state' = info
            /\ jobs' = create_processing_job(jobs, Len(streams) + 1, "vod_download")

handle_stream_update(info) ==
    /\ last_known_state' = info
    /\ UNCHANGED <<streams, jobs, current_stream_id>>

handle_stream_ended(db) ==
    IF current_stream_id = 0 \/ db = "update_fail"
    THEN UNCHANGED <<streams, jobs, current_stream_id, last_known_state>>
    ELSE /\ streams' = update_stream_ended(streams, current_stream_id)
         /\ current_stream_id' = 0
         /\ last_known_state' = None
         /\ UNCHANGED jobs

\* the storage call of this poll raises: the insert of a stream not yet
\* tracked, or the update of the stream that ended
poll_raises(current_stream, db) ==
    \/ /\ current_stream # None /\ last_known_state = None
       /\ get_stream_by_twitch_id(streams, current_stream) = 0
       /\ db = "insert_fail"
    \/ /\ current_stream = None /\ last_known_state # None
       /\ current_stream_id # 0
       /\ db = "update_fail"

\* a poll whose exception leaves check_stream_status: start_monitoring logs
\* it and the loop is over
check_stream_status_escapes(current_stream, db) ==
    /\ running
    /\ CASE current_stream # None /\ last_known_state = None ->
                handle_stream_started(current_stream, db)
         [] current_stream # None /\ last_known_state # None ->
                handle_stream_update(current_stream)
         [] current_stream = None /\ last_known_state # None ->
                handle_stream_ended(db)
         [] OTHER ->
                UNCHANGED <<streams, jobs, current_stream_id, last_known_state>>
    /\ running' = ~poll_raises(current_stream, db)
    /\ UNCHANGED <<downloads, new_vods, pending, localFiles, spaces, lastDl>>
    /\ UNCHANGED <<schedVars, matchVars, metaVars, pubVars, morning, broadcast, umVars>>

\* one iteration of the loop of start_monitoring (while self.running).
\* current_stream is what get_stream_info returned: a live stream's id, or
\* None (no broadcast, or the Twitch call failed and returned None); an
\* exception of a handler is logged and the loop goes on
check_stream_status(current_stream, db) ==
    /\ running
    /\ CASE current_stream # None /\ last_known_state = None ->
                handle_stream_started(current_stream, db)
         [] current_stream # None /\ last_known_state # None ->
                handle_stream_update(current_stream)
         [] current_stream = None /\ last_known_state # None ->
                handle_stream_ended(db)
         [] OTHER ->
                UNCHANGED <<streams, jobs, current_stream_id, last_known_state>>
    /\ running' = running
    /\ UNCHANGED <<downloads, new_vods, pending, localFiles, spaces, lastDl>>
    /\ UNCHANGED <<schedVars, matchVars, metaVars, pubVars, morning, broadcast, umVars>>

\* a new detector process: StreamDetector.__init__ and start_monitoring
detector_restart ==
    /\ current_stream_id' = 0
    /\ last_known_state' = None
    /\ running' = TRUE
    /\ UNCHANGED <<streams, downloads, jobs, new_vods, pending,
                   localFiles, spaces, lastDl>>
    /\ UNCHANGED <<schedVars, matchVars, metaVars, pubVars, morning, broadcast, umVars>>

(***************************************************************************)
(* The live-status poll against the channel                                *)
(*                                                                         *)
(* A broadcast has a Twitch stream id of its own; the channel is live with *)
(* one broadcast at a time.                                                *)
(***************************************************************************)
\* the Twitch stream ids of the channel's broadcasts
BroadcastIds == StreamIds \cup {"103"}

\* the channel goes live with a new broadcast
broadcast_starts(s) ==
    /\ broadcast.id = None
    /\ s \notin broadcast.past
    /\ broadcast' = [id |-> s, past |-> broadcast.past \cup {s}]
    /\ UNCHANGED <<discVars, schedVars, matchVars, metaVars, pubVars, morning, running, umVars>>

\* the broadcast ends
broadcast_ends ==
    /\ broadcast.id # None
    /\ broadcast' = [broadcast EXCEPT !.id = None]
    /\ UNCHANGED <<discVars, schedVars, matchVars, metaVars, pubVars, morning, running, umVars>>

\* twitch_api.py get_stream_info: the live broadcast, or None when the
\* channel is offline and when the call to Twitch fails
get_stream_info(api_ok) == IF api_ok THEN broadcast.id ELSE None

\* one iteration of the monitoring loop
poll(api_ok, db) == check_stream_status(get_stream_info(api_ok), db)

NextLive ==
    \/ \E s \in BroadcastIds : broadcast_starts(s)
    \/ broadcast_ends
    \/ \E api_ok \in BOOLEAN, db \in PollOutcomes : poll(api_ok, db)
    \/ detector_restart

(***************************************************************************)
(* VODDownloader                                                           *)
(***************************************************************************)
BytesPerMB == 1024 * 1024
MinSizeMB == 10

\* sizes in bytes of the file the download tool leaves behind
FileSizes == {5242880, 10480518, 10485760}

\* what one download attempt produces: the tools' verdict (streamlink, then
\* yt-dlp), whether the output file exists, its size, and whether the upload
\* to object storage works
DownloadOutcomes ==
    {[success |-> FALSE, exists |-> FALSE, bytes |-> 0, spaces_ok |-> TRUE],
     [success |-> FALSE, exists |-> TRUE, bytes |-> 5242880, spaces_ok |-> TRUE],
     [success |-> TRUE, exists |-> FALSE, bytes |-> 0, spaces_ok |-> TRUE]}
    \cup {[success |-> TRUE, exists |-> TRUE, bytes |-> b, spaces_ok |-> TRUE] : b \in FileSizes}
    \cup {[success |-> TRUE, exists |-> TRUE, bytes |-> 10485760, spaces_ok |-> FALSE]}

\* get_file_size_mb: round(size_bytes / (1024 * 1024), 2), in hundredths of a
\* MB (no size of FileSizes is an exact rounding tie)
get_file_size_mb(bytes) == (bytes * 100 + BytesPerMB \div 2) \div BytesPerMB

\* if file_size_mb < 10
file_too_small(bytes) == get_file_size_mb(bytes) < MinSizeMB * 100

\* supabase_client.py get_pending_downloads, in row order
RECURSIVE pending_from(_, _)
pending_from(dl, i) ==
    IF i > Len(dl) THEN <<>>
    ELSE IF dl[i].download_status = "pending"
         THEN <<i>> \o pending_from(dl, i + 1)
         ELSE pending_from(dl, i + 1)

get_pending_downloads(dl) == pending_from(dl, 1)

\* a failed row is put back to 'pending'
mark_download_failed_retry(dl, id, msg) ==
    [dl EXCEPT ![id] = [@ EXCEPT !.download_status = "pending", !.error_message = msg]]

mark_download_failed(dl, id, msg) ==
    [dl EXCEPT ![id] = [@ EXCEPT !.download_status = "failed", !.error_message = msg]]

mark_download_completed(dl, id, size) ==
    [dl EXCEPT ![id] = [@ EXCEPT !.download_status = "completed",
                                 !.file_path = "spaces", !.file_size_mb = size]]

mark_download_started(dl, id) ==
    [dl EXCEPT ![id] = [@ EXCEPT !.download_status = "downloading"]]

\* process_pending_downloads up to its loop: the snapshot of pending rows
process_pending_downloads ==
    /\ pending = <<>>
    /\ get_pending_downloads(downloads) # <<>>
    /\ pending' = get_pending_downloads(downloads)
    /\ UNCHANGED <<streams, downloads, jobs, current_stream_id, last_known_state,
                   new_vods, localFiles, spaces, lastDl>>
    /\ UNCHANGED offDisc

\* download_vod for the next row of the snapshot, up to the start of the
\* download tools: the row is marked downloading
download_vod_start ==
    /\ pending # <<>>
    /\ downloads[Head(pending)].download_status = "pending"
    /\ downloads' = mark_download_started(downloads, Head(pending))
    /\ UNCHANGED <<streams, jobs, current_stream_id, last_known_state, new_vods,
                   pending, localFiles, spaces, lastDl>>
    /\ UNCHANGED offDisc

\* the rest of download_vod: the tools ran with outcome o
download_vod(o) ==
    /\ pending # <<>>
    /\ downloads[Head(pending)].download_status = "downloading"
    /\ LET id == Head(pending) IN
       /\ lastDl' = [id |-> id, success |-> o.success, exists |-> o.exists,
                     bytes |-> o.bytes]
       /\ IF o.success /\ o.exists
          THEN IF file_too_small(o.bytes)
               THEN /\ downloads' = mark_download_failed(downloads, id, "File too small")
                    /\ localFiles' = localFiles \ {id}
                    /\ UNCHANGED spaces
               ELSE IF ~o.spaces_ok
               THEN /\ downloads' = mark_download_failed(downloads, id,
                                                         "DO Spaces upload failed")
                    /\ localFiles' = localFiles \ {id}
                    /\ UNCHANGED spaces
               ELSE /\ downloads' = mark_download_completed(downloads, id,
                                                            get_file_size_mb(o.bytes))
                    /\ spaces' = spaces \cup {id}
                    /\ localFiles' = localFiles \ {id}
          ELSE /\ downloads' = mark_download_failed(downloads, id, "Download failed")
               /\ localFiles' = IF o.exists THEN localFiles \cup {id} ELSE localFiles
               /\ UNCHANGED spaces
    /\ pending' = Tail(pending)
    /\ UNCHANGED <<streams, jobs, current_stream_id, last_known_state, new_vods>>
    /\ UNCHANGED offDisc

\* download_vod for the next row of the snapshot when mark_download_started
\* raises: the except clause of process_pending_downloads marks the row
\* failed and the loop goes on, unless that storage write raises as well
\* (handler_ok false) and the exception leaves process_pending_downloads
download_vod_start_raises(handler_ok) ==
    /\ pending # <<>>
    /\ downloads[Head(pending)].download_status = "pending"
    /\ IF handler_ok
       THEN /\ downloads' = mark_download_failed(downloads, Head(pending), "exception")
            /\ pending' = Tail(pending)
       ELSE /\ UNCHANGED downloads
            /\ pending' = <<>>
    /\ UNCHANGED <<streams, jobs, current_stream_id, last_known_state, new_vods,
                   localFiles, spaces, lastDl>>
    /\ UNCHANGED offDisc

\* the rest of download_vod when the storage write that records the result
\* of the tools raises: the local file is not deleted
download_vod_raises(o, handler_ok) ==
    /\ pending # <<>>
    /\ downloads[Head(pending)].download_status = "downloading"
    /\ LET id == Head(pending) IN
       /\ lastDl' = [id |-> id, success |-> o.success, exists |-> o.exists,
                     bytes |-> o.bytes]
       /\ localFiles' = IF o.exists THEN localFiles \cup {id} ELSE localFiles
       /\ spaces' = IF o.success /\ o.exists /\ ~file_too_small(o.bytes) /\ o.spaces_ok
                    THEN spaces \cup {id} ELSE spaces
       /\ IF handler_ok
          THEN /\ downloads' = mark_download_failed(downloads, id, "exception")
               /\ pending' = Tail(pending)
          ELSE /\ UNCHANGED downloads
               /\ pending' = <<>>
    /\ UNCHANGED <<streams, jobs, current_stream_id, last_known_state, new_vods>>
    /\ UNCHANGED offDisc

(***************************************************************************)
(* Specification of discovery, detection and download                      *)
(***************************************************************************)
\* no datetime: the scheduler has not been given a stream, has chosen no time
NoTime == [wall |-> 0, tzinfo |-> None, utcoffset |-> 0]

SchedIdle ==
    /\ stream_ended = NoTime /\ vod_time = NoTime /\ shorts_schedule = <<>>
    /\ sched_outcome = None

\* no metadata: the None a lookup returns
NoMetadata ==
    [game_name |-> <<>>, source |-> None, twitch_game_id |-> 0, igdb_id |-> 0,
     rawg_id |-> 0]

NoOutcome == [error |-> FALSE, results |-> <<>>]

MatchIdle ==
    /\ search = [game_name |-> <<>>, outcome |-> NoOutcome, rawg_api_key |-> FALSE]
    /\ found = [provider |-> None, metadata |-> NoMetadata]

\* no provider has been asked
NoProviders == [twitch |-> 0, igdb |-> None, rawg |-> None]

MetaIdle ==
    /\ handler = [twitch_handler |-> FALSE, rawg_api_key |-> FALSE]
    /\ game_metadata = {}
    /\ resolution = [game_name |-> <<>>, metadata |-> NoMetadata, status |-> None,
                     calls |-> 0, again |-> FALSE, called |-> <<>>,
                     providers |-> NoProviders]

DiscIdle ==
    /\ streams = <<>> /\ downloads = <<>> /\ jobs = <<>>
    /\ current_stream_id = 0 /\ last_known_state = None /\ new_vods = <<>>
    /\ pending = <<>> /\ localFiles = {} /\ spaces = {}
    /\ lastDl = [id |-> 0, success |-> FALSE, exists |-> FALSE, bytes |-> 0]

\* the processes that may run an upload scan
Processes == {1, 2}

\* a process that runs no upload scan
NoRun == [pc |-> "idle", queued |-> <<>>, video_id |-> 0]

PubIdle ==
    /\ uploads = <<>> /\ youtube = <<>> /\ alerts = <<>>
    /\ runs = [p \in Processes |-> NoRun]
    /\ now = 0 /\ server_utcoffset = 0

\* no pipeline run in progress, none finished
NoMorning == [pc |-> "idle", stats |-> None, steps |-> <<>>, scan |-> <<>>]

\* the channel is offline and has not been live yet
NoBroadcast == [id |-> None, past |-> {}]

\* the worker of the UploadManager is at no job
NoJob == [job_id |-> 0, stream |-> 0]

MgrIdle ==
    /\ morning = NoMorning
    /\ broadcast = NoBroadcast
    /\ running = TRUE
    /\ manager = [upload_queue |-> <<>>, job |-> NoJob]
    /\ processed_at = {}
    /\ table_uploads = <<>>

Init ==
    /\ MgrIdle
    /\ SchedIdle
    /\ MatchIdle
    /\ MetaIdle
    /\ PubIdle
    /\ streams = <<>>
    /\ downloads = <<>>
    /\ jobs = <<>>
    /\ current_stream_id = 0
    /\ last_known_state = None
    /\ new_vods = <<>>
    /\ pending = <<>>
    /\ localFiles = {}
    /\ spaces = {}
    /\ lastDl = [id |-> 0, success |-> FALSE, exists |-> FALSE, bytes |-> 0]

Next ==
    \/ \E vods \in Listings :
          /\ Len(vods) <= MaxListing
          /\ Len(streams) + Len(vods) <= MaxStreams
          /\ \E outcome \in [Listed(vods) -> InsertOutcomes] :
                process_new_vods(vods, outcome)
    \/ \E current_stream \in StreamIds \cup {None}, db \in PollOutcomes :
          /\ Len(streams) < MaxStreams
          /\ check_stream_status(current_stream, db)
    \/ detector_restart

Spec == Init /\ [][Next]_vars

(***************************************************************************)
(* Specification of the discovery scans alone, with full listings          *)
(***************************************************************************)
NextScan ==
    \E vods \in Listings :
       /\ Len(streams) + Len(vods) <= MaxScanRows
       /\ \E outcome \in [Listed(vods) -> InsertOutcomes] :
             process_new_vods(vods, outcome)

SpecScan == Init /\ [][NextScan]_vars

(***************************************************************************)
(* Specification of the download scan, interleaved with discovery scans    *)
(***************************************************************************)
NextDl ==
    \/ \E vods \in Listings :
          /\ Len(vods) <= MaxListing
          /\ Len(streams) + Len(vods) <= MaxDownloads
          /\ \E outcome \in [Listed(vods) -> InsertOutcomes] :
                process_new_vods(vods, outcome)
    \/ process_pending_downloads
    \/ download_vod_start
    \/ \E o \in DownloadOutcomes : download_vod(o)

SpecDl == Init /\ [][NextDl]_vars

(***************************************************************************)
(* Specification of the live detector polling the channel; in SpecLiveFair *)
(* the monitoring loop keeps polling and the calls to Twitch and to the    *)
(* storage do not fail forever                                             *)
(***************************************************************************)
SpecLive == Init /\ [][NextLive]_vars

SpecLiveFair == Init /\ [][NextLive]_vars /\ WF_vars(poll(TRUE, "ok"))

(***************************************************************************)
(* Specification of the download scan when storage writes can raise        *)
(***************************************************************************)
NextBatch ==
    \/ \E vods \in Listings :
          /\ Len(vods) <= MaxListing
          /\ Len(streams) + Len(vods) <= MaxDownloads
          /\ \E outcome \in [Listed(vods) -> InsertOutcomes] :
                process_new_vods(vods, outcome)
    \/ process_pending_downloads
    \/ download_vod_start
    \/ \E o \in DownloadOutcomes : download_vod(o)
    \/ \E handler_ok \in BOOLEAN : download_vod_start_raises(handler_ok)
    \/ \E o \in DownloadOutcomes, handler_ok \in BOOLEAN :
          download_vod_raises(o, handler_ok)

SpecBatch == Init /\ [][NextBatch]_vars

(***************************************************************************)
(* Specification of the download scan on a server that can stop at any     *)
(* moment of a scan and is started again: every scan that can run does run *)
(***************************************************************************)
\* the process stops in the middle of a scan: the tables and the files stay,
\* the snapshot of the running scan is lost
crash ==
    /\ pending # <<>>
    /\ pending' = <<>>
    /\ UNCHANGED <<streams, downloads, jobs, current_stream_id, last_known_state,
                   new_vods, localFiles, spaces, lastDl>>
    /\ UNCHANGED offDisc

NextCrash ==
    \/ \E vods \in Listings :
          /\ Len(vods) <= MaxListing
          /\ Len(streams) + Len(vods) <= MaxDownloads
          /\ \E outcome \in [Listed(vods) -> InsertOutcomes] :
                process_new_vods(vods, outcome)
    \/ process_pending_downloads
    \/ download_vod_start
    \/ \E o \in DownloadOutcomes : download_vod(o)
    \/ crash

SpecCrash ==
    /\ Init
    /\ [][NextCrash]_vars
    /\ WF_vars(process_pending_downloads)
    /\ WF_vars(download_vod_start)
    /\ WF_vars(\E o \in DownloadOutcomes : download_vod(o))

(***************************************************************************)
(* Properties of discovery, detection and download                         *)
(***************************************************************************)
RowsOfVod(v) == {i \in DOMAIN streams : streams[i].twitch_vod_id = v}
TasksOfVod(v) == {d \in DOMAIN downloads : downloads[d].stream_id \in RowsOfVod(v)}

NonTerminal == {"pending", "downloading"}
OpenTasksOfVod(v) ==
    {d \in TasksOfVod(v) : downloads[d].download_status \in NonTerminal}

\* C3: in every reachable state each stream, identified by its VOD, has at
\* most one download task that is pending or downloading: a scan run while
\* such a task exists creates no second one for that stream.
C3_OneOpenTaskPerStream ==
    \A v \in VodIds : Cardinality(OpenTasksOfVod(v)) <= 1

\* C4: the rows one scan appends are in ascending order of the creation
\* instant of their VODs, whatever the order of the listing.
C4_OldestFirst ==
    [][\A i, j \in (Len(streams) + 1)..Len(streams') :
          i < j => Instant(streams'[i].started_at) <= Instant(streams'[j].started_at)]_vars

\* one scan created the records of all three VODs
C4_Witness == new_vods = <<"901", "902", "903">>

\* C8: after a download whose tools reported success and left a file of
\* fewer than 10 MB, the task is failed, the local file is gone and nothing
\* was uploaded to object storage.
C8_SmallFileFails ==
    (lastDl.id # 0 /\ lastDl.success /\ lastDl.exists
        /\ lastDl.bytes < MinSizeMB * BytesPerMB)
    => /\ downloads[lastDl.id].download_status = "failed"
       /\ lastDl.id \notin localFiles
       /\ lastDl.id \notin spaces

\* C9: the row the live-status poll creates for a broadcast and the row the
\* VOD listing creates for the same broadcast are one row.
C9_OneRowPerBroadcast ==
    \A s \in StreamIds :
        \A i, j \in DOMAIN streams :
            (streams[i].twitch_stream_id = s /\ streams[j].twitch_vod_id = VodOfStream(s))
            => i = j

StatusRank(st) ==
    CASE st = "live" -> 1 [] st = "ended" -> 2 [] st = "vod_available" -> 3 [] OTHER -> 0

\* C10: no step moves the status of a stored stream row backward in
\* live -> ended -> vod_available.
C10_StatusForward ==
    [][\A i \in DOMAIN streams :
          /\ StatusRank(streams'[i].status) >= StatusRank(streams[i].status)
          /\ StatusRank(streams'[i].stream_status) >= StatusRank(streams[i].stream_status)]_vars

\* the detector found the row of an ended broadcast again and tracks it
C10_Witness ==
    \E i \in DOMAIN streams : streams[i].status = "ended" /\ current_stream_id = i

\* C16: a failure while one row of a batch is handled, the failure of the
\* storage write that records the row's outcome included, does not end the
\* scan: a download scan ends only with the last row of its snapshot.
C16_BatchNotAborted ==
    [][(pending # <<>> /\ pending' = <<>>) => Len(pending) = 1]_vars

\* C18: whatever happens to the process while a download row is in status
\* 'downloading', a later download scan takes the row up again: every
\* download row eventually is 'completed' or 'failed'.
C18_DownloadsTerminate ==
    \A i \in 1..MaxDownloads :
        [](i \in DOMAIN downloads
             => <>(/\ i \in DOMAIN downloads
                   /\ downloads[i].download_status \in {"completed", "failed"}))

\* C21: when the handling of a download row ends without the row being
\* completed (the download failed, or a step of it raised), the row is stored
\* as 'failed' with a non-empty error message, and no other download row is
\* changed by that step.
C21_FailureRecorded ==
    [][(/\ pending # <<>>
        /\ pending' # pending
        /\ downloads'[Head(pending)].download_status # "completed")
          => /\ downloads'[Head(pending)].download_status = "failed"
             /\ downloads'[Head(pending)].error_message \notin {None, ""}
             /\ \A j \in DOMAIN downloads \ {Head(pending)} :
                    downloads'[j] = downloads[j]]_vars

\* the status changes of download row i in one step
StatusChange(i) == <<downloads[i].download_status, downloads'[i].download_status>>

Terminal == {"completed", "failed"}

\* C22 as stated: the status of a download row changes only from 'pending'
\* to 'downloading' and from 'downloading' to 'completed' or 'failed', and a
\* row that is 'completed' or 'failed' is never changed again.
C22_StatusPath ==
    [][\A i \in DOMAIN downloads :
          /\ downloads[i].download_status \in Terminal => downloads'[i] = downloads[i]
          /\ downloads'[i].download_status # downloads[i].download_status
               => StatusChange(i) \in {<<"pending", "downloading">>,
                                       <<"downloading", "completed">>,
                                       <<"downloading", "failed">>}]_vars

\* C22, amended: the status of a download row changes only from 'pending' to
\* 'downloading' or (when marking the row as started raises) to 'failed',
\* and from 'downloading' to 'completed' or 'failed'; a row that is
\* 'completed' or 'failed' is never changed again by any scan.
C22_StatusPathOrFailed ==
    [][\A i \in DOMAIN downloads :
          /\ downloads[i].download_status \in Terminal => downloads'[i] = downloads[i]
          /\ downloads'[i].download_status # downloads[i].download_status
               => StatusChange(i) \in {<<"pending", "downloading">>,
                                       <<"pending", "failed">>,
                                       <<"downloading", "completed">>,
                                       <<"downloading", "failed">>}]_vars

\* a scan handles a row while another row is already 'completed' or 'failed'
C22_Witness ==
    /\ pending # <<>>
    /\ downloads[Head(pending)].download_status = "downloading"
    /\ \E i \in DOMAIN downloads \ {Head(pending)} :
          downloads[i].download_status \in Terminal

\* C25: a stream row in status 'live' whose broadcast is over is eventually
\* moved to 'ended' by the live-status poll, also when the detector process
\* was started again between the start and the end of the broadcast.
C25_LiveRowEventuallyEnded ==
    \A i \in 1..MaxStreams :
        []((/\ i \in DOMAIN streams
            /\ streams[i].status = "live"
            /\ broadcast.id # streams[i].twitch_stream_id)
             => <>(i \in DOMAIN streams /\ streams[i].status = "ended"))

\* C26: whatever the polls return, a stream row is marked ended only when
\* its broadcast is no longer live (a failed live-status call changes no
\* row), and a row that is ended is not written again.
C26_EndedOnlyWhenOffline ==
    [][\A i \in DOMAIN streams :
          /\ (streams[i].status # "ended" /\ streams'[i].status = "ended")
                => broadcast.id # streams[i].twitch_stream_id
          /\ streams[i].status = "ended" => streams'[i] = streams[i]]_vars

\* the stream rows stored by VOD discovery that have no download task
Orphans(ss, dl) ==
    {i \in DOMAIN ss : /\ ss[i].twitch_vod_id # None
                        /\ ~\E d \in DOMAIN dl : dl[d].stream_id = i}

\* a discovery scan over a listing of every VOD, all of whose inserts work
RepairScanStep ==
    \E vods \in Listings :
        /\ Listed(vods) = VodIds
        /\ process_new_vods(vods, [v \in VodIds |-> "ok"])

\* C27: no stream row stored by VOD discovery stays without a download task:
\* a row whose task could not be created when the row was stored has a task
\* after the next discovery scan whose storage writes work.
C27_OrphanGetsTask ==
    [][RepairScanStep => Orphans(streams', downloads') = {}]_vars

(***************************************************************************)
(* SchedulingOptimizer                                                     *)
(*                                                                         *)
(* A datetime is [wall, tzinfo, utcoffset]: the minutes of its wall-clock  *)
(* fields counted from day 0 00:00, its zone (None when the datetime is    *)
(* naive) and its UTC offset in minutes.  The zone of the optimizer is US/Eastern; on the    *)
(* last day of the modelled calendar its clocks move from 02:00 standard   *)
(* time to 03:00 daylight time.                                            *)
(***************************************************************************)
MaxDay == 3         \* SpecSched: days 1..MaxDay on which a stream may end
MaxClips == 9       \* SpecSched: clips of a stream ready for upload

MinutesPerDay == 24 * 60
EST == -(5 * 60)
EDT == -(4 * 60)
DstDay == MaxDay
DstStart == DstDay * MinutesPerDay + 2 * 60

date(dt) == dt.wall \div MinutesPerDay
hour(dt) == (dt.wall % MinutesPerDay) \div 60
minute(dt) == dt.wall % 60
timestamp(dt) == dt.wall - dt.utcoffset

\* pytz: self.timezone.localize(naive), is_dst = False; a wall time the
\* clock change skips keeps the standard offset
localize(wall) ==
    [wall |-> wall, tzinfo |-> "US/Eastern",
     utcoffset |-> IF wall < DstStart + 60 THEN EST ELSE EDT]

\* aware.astimezone(self.timezone)
astimezone(dt) ==
    LET utc == timestamp(dt)
        off == IF utc < DstStart - EST THEN EST ELSE EDT
    IN [wall |-> utc + off, tzinfo |-> "US/Eastern", utcoffset |-> off]

\* the optimizer without the push of late streams to the following day
get_optimal_vod_time_nopush(ended_at) ==
    LET local == IF ended_at.tzinfo = None THEN localize(ended_at.wall)
                 ELSE astimezone(ended_at)
    IN localize((date(local) + 1) * MinutesPerDay + 3 * 60)

\* optimal_time += timedelta(days=1) moves the wall-clock fields and keeps
\* the offset optimal_time was localized with
get_optimal_vod_time(ended_at) ==
    LET local == IF ended_at.tzinfo = None THEN localize(ended_at.wall)
                 ELSE astimezone(ended_at)
        next_day == date(local) + 1
        optimal_time == localize(next_day * MinutesPerDay + 3 * 60)
    IN IF hour(local) >= 23
       THEN [optimal_time EXCEPT !.wall = @ + MinutesPerDay]
       ELSE optimal_time

\* the stream end times the scheduler is given: naive local or aware UTC
EndTimes ==
    {[wall |-> d * MinutesPerDay + h * 60 + m, tzinfo |-> tz, utcoffset |-> 0] :
        d \in 1..MaxDay, h \in 0..23, m \in {0, 59}, tz \in {None, "UTC"}}

\* date_obj.weekday(), 0 = Monday; the clocks change on a Sunday
weekday(date_obj) == (date_obj + (6 - (DstDay % 7))) % 7

\* self.day_priorities['shorts']
day_priorities == <<3, 2, 2, 1, 1, 3, 4>>

\* a table of three windows a day
prime_times_three == <<<<7, 9>>, <<12, 14>>, <<17, 20>>>>

\* self.prime_times['shorts'], hours of the start and the end of a window
prime_times == <<<<7, 9>>, <<12, 14>>, <<17, 20>>, <<21, 23>>>>

\* the slot of one window on a day: the middle hour of the window, minute 30
day_time_slot(date_obj, window) ==
    LET day_priority == day_priorities[weekday(date_obj) + 1]
        slot_hour == (window[1] + window[2]) \div 2
        slot_type == IF day_priority <= 2 THEN "prime"
                     ELSE IF day_priority = 3 THEN "good" ELSE "standard"
    IN [datetime |-> localize(date_obj * MinutesPerDay + slot_hour * 60 + 30),
        priority |-> IF day_priority <= 2 THEN 1
                     ELSE IF day_priority = 3 THEN 2 ELSE 3,
        slot_type |-> slot_type,
        reason |-> <<slot_type, weekday(date_obj)>>,
        content_type |-> "shorts"]

\* _get_day_time_slots(date_obj, 'shorts'): the slots of a day share one
\* priority, so the stable sort by priority keeps the order of the windows
_get_day_time_slots(date_obj) ==
    [w \in DOMAIN prime_times |-> day_time_slot(date_obj, prime_times[w])]

\* five clips a day
days_offset_five(clip_index) == clip_index \div 5

\* days_offset = clip_index // 4
days_offset(clip_index) == clip_index \div 4

\* a schedule that stops at the last window of the first day
get_optimal_shorts_schedule_oneday(base_date, num_clips) ==
    LET local == IF base_date.tzinfo = None THEN localize(base_date.wall)
                 ELSE astimezone(base_date)
    IN SubSeq(_get_day_time_slots(date(local)), 1,
              IF num_clips < 4 THEN num_clips ELSE 4)

get_optimal_shorts_schedule(base_date, num_clips) ==
    LET local == IF base_date.tzinfo = None THEN localize(base_date.wall)
                 ELSE astimezone(base_date)
        current_date == date(local)
        slot_of(clip_index) ==
            LET clip_date == current_date + days_offset(clip_index)
                slot_index == clip_index % 4
                optimal_slots == _get_day_time_slots(clip_date)
            IN IF slot_index < Len(optimal_slots)
               THEN optimal_slots[slot_index + 1]
               ELSE [datetime |-> localize(clip_date * MinutesPerDay + 19 * 60),
                     priority |-> 4, slot_type |-> "standard",
                     reason |-> <<"fallback", weekday(clip_date)>>,
                     content_type |-> "short"]
    IN [k \in 1..num_clips |-> slot_of(k - 1)]

\* base_date = stream_ended + timedelta(days=1)
base_date_of(ended_at) == [ended_at EXCEPT !.wall = @ + MinutesPerDay]

\* stream_data['ended_at'] of a row whose ended_at is null
NullEnd == [wall |-> 0, tzinfo |-> "null", utcoffset |-> 0]

\* a scheduler that takes the start of the calendar for a missing end
schedule_content_uploads_default(clips_count) ==
    /\ stream_ended # NoTime
    /\ sched_outcome = None
    /\ LET ended == IF stream_ended = NullEnd
                    THEN [wall |-> MinutesPerDay, tzinfo |-> None, utcoffset |-> 0]
                    ELSE stream_ended
       IN /\ vod_time' = get_optimal_vod_time(ended)
          /\ shorts_schedule' =
                 IF clips_count > 0
                 THEN get_optimal_shorts_schedule(base_date_of(ended), clips_count)
                 ELSE <<>>
    /\ sched_outcome' = "scheduled"
    /\ UNCHANGED <<stream_ended, discVars, matchVars, metaVars, pubVars, mgrVars>>

\* schedule_content_uploads: the VOD slot and the slots of the clips_count
\* clips of the stream that are ready for upload.  With ended_at null,
\* get_optimal_vod_time raises on stream_ended_at.tzinfo and the except
\* clause returns {'vod': [], 'shorts': []}.
schedule_content_uploads(clips_count) ==
    /\ stream_ended # NoTime
    /\ sched_outcome = None
    /\ IF stream_ended = NullEnd
       THEN /\ sched_outcome' = "error"
            /\ UNCHANGED <<vod_time, shorts_schedule>>
       ELSE /\ vod_time' = get_optimal_vod_time(stream_ended)
            /\ shorts_schedule' =
                   IF clips_count > 0
                   THEN get_optimal_shorts_schedule(base_date_of(stream_ended), clips_count)
                   ELSE <<>>
            /\ sched_outcome' = "scheduled"
    /\ UNCHANGED <<stream_ended, discVars, matchVars, metaVars, pubVars, mgrVars>>

InitSched ==
    /\ MgrIdle
    /\ stream_ended \in EndTimes \cup {NullEnd}
    /\ vod_time = NoTime
    /\ shorts_schedule = <<>>
    /\ sched_outcome = None
    /\ DiscIdle
    /\ MatchIdle
    /\ MetaIdle
    /\ PubIdle

NextSched == \E clips_count \in 0..MaxClips : schedule_content_uploads(clips_count)

SpecSched == InitSched /\ [][NextSched]_vars

\* the stream end in the zone of the optimizer
LocalEnd ==
    IF stream_ended.tzinfo = None THEN localize(stream_ended.wall)
    ELSE astimezone(stream_ended)

\* C7: for a stream that ended on local day D the VOD time reads 03:00 on
\* day D+1 when the local end hour is below 23 and 03:00 on day D+2 when it
\* is 23, and it is an instant strictly after the end.
C7_OvernightSlot ==
    vod_time # NoTime =>
        /\ date(vod_time) = date(LocalEnd) + (IF hour(LocalEnd) < 23 THEN 1 ELSE 2)
        /\ hour(vod_time) = 3 /\ minute(vod_time) = 0
        /\ timestamp(vod_time) > timestamp(LocalEnd)

\* a stream given in UTC whose local end hour is 23 has been scheduled
C7_Witness ==
    /\ vod_time # NoTime
    /\ stream_ended.tzinfo = "UTC"
    /\ hour(LocalEnd) = 23

\* the base date of the clips in the zone of the optimizer
LocalBase ==
    IF stream_ended.tzinfo = None THEN localize(base_date_of(stream_ended).wall)
    ELSE astimezone(base_date_of(stream_ended))

\* the clips whose slot lies on day d
SlotsOn(d) == {k \in DOMAIN shorts_schedule : date(shorts_schedule[k].datetime) = d}

\* C30: clip i (0-based) lies on the day of the base date, read in the zone
\* of the optimizer, plus floor(i / 4): the days of the slots are consecutive
\* without a gap, no day holds more than 4 slots, and the slots of one day
\* are pairwise distinct instants.
C30_FourADay ==
    vod_time # NoTime =>
        /\ \A k \in DOMAIN shorts_schedule :
              date(shorts_schedule[k].datetime) = date(LocalBase) + ((k - 1) \div 4)
        /\ \A k \in DOMAIN shorts_schedule : k > 1 =>
              date(shorts_schedule[k].datetime) - date(shorts_schedule[k - 1].datetime) \in {0, 1}
        /\ \A k \in DOMAIN shorts_schedule :
              /\ Cardinality(SlotsOn(date(shorts_schedule[k].datetime))) <= 4
              /\ \A j \in SlotsOn(date(shorts_schedule[k].datetime)) : j # k =>
                    timestamp(shorts_schedule[j].datetime) # timestamp(shorts_schedule[k].datetime)

\* nine clips of a stream given in UTC whose base date falls on the evening
\* before in the zone of the optimizer: three days of slots, the last with one
C30_Witness ==
    /\ Len(shorts_schedule) = 9
    /\ stream_ended.tzinfo = "UTC"
    /\ date(LocalBase) < date(base_date_of(stream_ended))
    /\ Cardinality(SlotsOn(date(LocalBase) + 2)) = 1

\* C31: the priority ranks of the returned shorts slots are non-decreasing
\* along the list (rank 1, the best, first).
C31_BestFirst ==
    sched_outcome = "scheduled" =>
        \A k \in DOMAIN shorts_schedule : k > 1 =>
            shorts_schedule[k - 1].priority <= shorts_schedule[k].priority

\* C32: get_optimal_shorts_schedule returns exactly num_clips slots for every
\* num_clips >= 0, none for zero, and schedule_content_uploads returns no
\* shorts slots for a stream without pending clips.
C32_ExactlyNumClips ==
    [][\A n \in 0..MaxClips :
          (stream_ended # NullEnd /\ schedule_content_uploads(n)) =>
              /\ Len(get_optimal_shorts_schedule(base_date_of(stream_ended), n)) = n
              /\ Len(shorts_schedule') = n
              /\ (n = 0 => shorts_schedule' = <<>>)]_vars

\* five clips of a stream whose end is given as a naive local time
C32_Witness ==
    /\ sched_outcome = "scheduled"
    /\ stream_ended.tzinfo = None
    /\ Len(shorts_schedule) = 5

\* C33: scheduling a stream whose ended_at is missing ends in the error
\* outcome with no VOD slot and no shorts slots, and changes no stored table.
C33_NoEndNoSchedule ==
    [][(stream_ended = NullEnd /\ sched_outcome' # sched_outcome) =>
          /\ sched_outcome' = "error"
          /\ vod_time' = NoTime
          /\ shorts_schedule' = <<>>
          /\ UNCHANGED <<discVars, pubVars, umVars>>]_vars

\* the scheduler has been called for a stream without ended_at
C33_Witness ==
    /\ stream_ended = NullEnd
    /\ sched_outcome = "error"

\* C34 as stated: every clip after the fourth receives the fallback slot
\* (19:00, priority 4) instead of a window slot.
C34_ExcessFallsBack ==
    sched_outcome = "scheduled" =>
        \A k \in DOMAIN shorts_schedule : k > 4 =>
            /\ hour(shorts_schedule[k].datetime) = 19
            /\ minute(shorts_schedule[k].datetime) = 0
            /\ shorts_schedule[k].priority = 4

\* C34, corrected: the four windows of a day take the clips with index 0..3
\* within the day, so every clip, the clips after the fourth included,
\* receives the window slot (i mod 4) of its day (08:30, 13:30, 18:30,
\* 22:30, priority 1..3) and no clip receives the fallback slot.
C34_WindowSlotForEveryClip ==
    sched_outcome = "scheduled" =>
        \A k \in DOMAIN shorts_schedule :
            /\ hour(shorts_schedule[k].datetime) = <<8, 13, 18, 22>>[((k - 1) % 4) + 1]
            /\ minute(shorts_schedule[k].datetime) = 30
            /\ shorts_schedule[k].priority \in 1..3
            /\ shorts_schedule[k].reason[1] # "fallback"

\* eight clips: the second day is filled with window slots as well
C34_Witness ==
    /\ sched_outcome = "scheduled"
    /\ Len(shorts_schedule) = 8
    /\ hour(shorts_schedule[8].datetime) = 22

(***************************************************************************)
(* GameMetadataHandler: provider lookups                                   *)
(*                                                                         *)
(* A name is the sequence of its characters.                               *)
(***************************************************************************)
MaxResults == 2     \* SpecMatch: candidates in one provider answer

HalfLife == <<"H", "a", "l", "f", "-", "L", "i", "f", "e">>
HalfLife2 == HalfLife \o <<" ", "2">>
half_life == <<" ", "h", "a", "l", "f", "-", "l", "i", "f", "e">>
Portal == <<"P", "o", "r", "t", "a", "l">>

\* str.lower, over the letters the names use
lower(name) ==
    [i \in DOMAIN name |->
        CASE name[i] = "H" -> "h" [] name[i] = "L" -> "l" [] name[i] = "P" -> "p"
          [] OTHER -> name[i]]

RECURSIVE lstrip(_)
lstrip(name) ==
    IF name # <<>> /\ Head(name) = " " THEN lstrip(Tail(name)) ELSE name

RECURSIVE rstrip(_)
rstrip(name) ==
    IF name # <<>> /\ name[Len(name)] = " "
    THEN rstrip(SubSeq(name, 1, Len(name) - 1)) ELSE name

\* str.strip
strip(name) == rstrip(lstrip(name))

\* the games the IGDB and RAWG searches may return, by provider id
GameIds == {1, 2, 3}
result_name(id) ==
    CASE id = 1 -> HalfLife2 [] id = 2 -> HalfLife [] OTHER -> half_life \o <<" ">>

\* a provider answer: the request failed, or an ordered list of candidates
ResultLists(n) ==
    {r \in UNION {[1..k -> GameIds] : k \in 0..n} :
        \A i, j \in DOMAIN r : i # j => r[i] # r[j]}
ProviderOutcomes(n) ==
    {[error |-> TRUE, results |-> <<>>]}
        \cup {[error |-> FALSE, results |-> r] : r \in ResultLists(n)}

\* a lookup that accepts the first candidate of the answer
first_candidate(game_name, results) == IF results = <<>> THEN 0 ELSE 1

\* the loop over the results: the position of the first candidate whose
\* name equals the searched name after lower() and strip(), 0 if none
first_exact(game_name, results) ==
    LET search_name == strip(lower(game_name))
        exact == {k \in DOMAIN results :
                     strip(lower(result_name(results[k]))) = search_name}
    IN IF exact = {} THEN 0 ELSE CHOOSE k \in exact : \A l \in exact : k <= l

fetch_from_igdb(game_name, outcome) ==
    IF outcome.error \/ outcome.results = <<>> THEN NoMetadata
    ELSE LET k == first_exact(game_name, outcome.results)
         IN IF k = 0 THEN NoMetadata
            ELSE [game_name |-> game_name, source |-> "igdb", twitch_game_id |-> 0,
                  igdb_id |-> outcome.results[k], rawg_id |-> 0]

fetch_from_rawg(rawg_api_key, game_name, outcome) ==
    IF ~rawg_api_key \/ outcome.error \/ outcome.results = <<>> THEN NoMetadata
    ELSE LET k == first_exact(game_name, outcome.results)
         IN IF k = 0 THEN NoMetadata
            ELSE [game_name |-> game_name, source |-> "rawg", twitch_game_id |-> 0,
                  igdb_id |-> 0, rawg_id |-> outcome.results[k]]

\* the names handed to the lookups
QueryNames == {HalfLife, half_life, Portal}

igdb_lookup ==
    /\ found.provider = None
    /\ found' = [provider |-> "igdb",
                 metadata |-> fetch_from_igdb(search.game_name, search.outcome)]
    /\ UNCHANGED <<search, discVars, schedVars, metaVars, pubVars, mgrVars>>

rawg_lookup ==
    /\ found.provider = None
    /\ found' = [provider |-> "rawg",
                 metadata |-> fetch_from_rawg(search.rawg_api_key, search.game_name,
                                              search.outcome)]
    /\ UNCHANGED <<search, discVars, schedVars, metaVars, pubVars, mgrVars>>

InitMatch ==
    /\ MgrIdle
    /\ search \in [game_name : QueryNames, outcome : ProviderOutcomes(MaxResults),
                   rawg_api_key : BOOLEAN]
    /\ found = [provider |-> None, metadata |-> NoMetadata]
    /\ DiscIdle
    /\ SchedIdle
    /\ MetaIdle
    /\ PubIdle

NextMatch == igdb_lookup \/ rawg_lookup

SpecMatch == InitMatch /\ [][NextMatch]_vars

\* the candidate a lookup accepted, 0 if it returned nothing
Accepted == found.metadata.igdb_id + found.metadata.rawg_id

\* the positions of the answer whose name is the searched name up to case
\* and surrounding whitespace
ExactPositions ==
    {k \in DOMAIN search.outcome.results :
        lower(strip(result_name(search.outcome.results[k]))) =
            lower(strip(search.game_name))}

\* C5: a lookup returns a candidate only if its name equals the searched name
\* after lower-casing and trimming, it returns the first such candidate of
\* the answer, and nothing when no candidate matches; for "Half-Life" and
\* the answer ["Half-Life 2", "Half-Life"] it returns "Half-Life".
C5_ExactMatchOnly ==
    found.provider # None =>
        /\ Accepted # 0 =>
              \E k \in ExactPositions :
                  /\ search.outcome.results[k] = Accepted
                  /\ \A l \in ExactPositions : k <= l
        /\ ExactPositions = {} => found.metadata = NoMetadata
        /\ (/\ search.game_name = HalfLife
            /\ search.outcome = [error |-> FALSE, results |-> <<1, 2>>]
            /\ (found.provider = "igdb" \/ search.rawg_api_key))
           => Accepted = 2 /\ found.metadata.game_name = HalfLife

\* the IGDB lookup of "Half-Life" was answered ["Half-Life 2", "Half-Life"]
C5_Witness ==
    /\ found.provider = "igdb"
    /\ search.game_name = HalfLife
    /\ search.outcome = [error |-> FALSE, results |-> <<1, 2>>]
    /\ Accepted = 2

(***************************************************************************)
(* GameMetadataHandler.fetch_game_metadata                                 *)
(***************************************************************************)
MaxMetaResults == 1     \* SpecMeta: candidates in one provider answer

\* the games of Twitch, by Twitch game id
TwitchGameIds == {11, 12}
twitch_name(id) == IF id = 11 THEN HalfLife ELSE Portal
twitch_igdb_id(id) == IF id = 11 THEN 2 ELSE 0

\* what get_games can answer: nothing (0: no such game, or the call failed),
\* the game with the given id, or without an id the game of exactly that name
TwitchAnswers(game_id, game_name) ==
    {0} \cup (IF game_id # 0 THEN {game_id}
              ELSE {g \in TwitchGameIds : twitch_name(g) = game_name})

fetch_from_twitch(twitch_handler, answer) ==
    IF ~twitch_handler \/ answer = 0 THEN NoMetadata
    ELSE [game_name |-> twitch_name(answer), source |-> "twitch",
          twitch_game_id |-> answer, igdb_id |-> twitch_igdb_id(answer),
          rawg_id |-> 0]

\* a cache that never has the row
get_game_metadata_miss(cache, game_name) == NoMetadata

\* SupabaseClient.get_game_metadata: the row whose game_name equals the name
get_game_metadata(cache, game_name) ==
    IF \E r \in cache : r.game_name = game_name
    THEN CHOOSE r \in cache : r.game_name = game_name
    ELSE NoMetadata

\* SupabaseClient.create_game_metadata: upsert on game_name
create_game_metadata(cache, row) ==
    {r \in cache : r.game_name # row.game_name} \cup {row}

\* the Twitch branch of fetch_game_metadata: Twitch data with the IGDB details
\* of the Twitch name when IGDB has an exact match
twitch_final(twitch_metadata, igdb_outcome) ==
    LET igdb_metadata == fetch_from_igdb(twitch_metadata.game_name, igdb_outcome)
    IN IF igdb_metadata # NoMetadata
       THEN [game_name |-> twitch_metadata.game_name, source |-> "twitch+igdb",
             twitch_game_id |-> twitch_metadata.twitch_game_id,
             igdb_id |-> igdb_metadata.igdb_id, rawg_id |-> 0]
       ELSE twitch_metadata

\* a return that writes a cache row for every result it did not read from
\* the cache
return_metadata_cached_always(game_name, metadata, status, called, providers, write_ok) ==
    /\ resolution' =
          [game_name |-> game_name, metadata |-> metadata, status |-> status,
           calls |-> Len(called),
           again |-> resolution.game_name = game_name
                        /\ resolution.metadata # NoMetadata,
           called |-> called, providers |-> providers]
    /\ game_metadata' =
          IF status # "cached"
          THEN create_game_metadata(game_metadata, metadata)
          ELSE game_metadata

\* the return of fetch_game_metadata for game_name, after the cache write of
\* a fetched result; a failed write is logged and ignored.  called lists the
\* providers the call has asked, providers what each of them had to answer.
return_metadata(game_name, metadata, status, called, providers, write_ok) ==
    /\ resolution' =
          [game_name |-> game_name, metadata |-> metadata, status |-> status,
           calls |-> Len(called),
           again |-> resolution.game_name = game_name
                        /\ resolution.metadata # NoMetadata,
           called |-> called, providers |-> providers]
    /\ game_metadata' =
          IF status = "success" /\ write_ok
          THEN create_game_metadata(game_metadata, metadata)
          ELSE game_metadata

\* what a provider had to answer to a lookup that returns metadata: the
\* request fails, no candidate has exactly the searched name, or one has
provider_answer(outcome, metadata) ==
    IF outcome.error THEN "error"
    ELSE IF metadata = NoMetadata THEN "no_match" ELSE "match"

\* the body of fetch_game_metadata: the cache first, then Twitch, IGDB and
\* RAWG in turn
fetch_game_metadata_call(raw_name, game_id) ==
    LET game_name == strip(raw_name)
        cached == get_game_metadata(game_metadata, game_name)
        t == IF handler.twitch_handler THEN <<"twitch">> ELSE <<>>
        w == IF handler.rawg_api_key THEN <<"rawg">> ELSE <<>>
        Answers == ProviderOutcomes(MaxMetaResults)
    IN IF cached # NoMetadata
       THEN return_metadata(game_name, cached, "cached", <<>>, NoProviders, FALSE)
       ELSE \E answer \in (IF handler.twitch_handler
                            THEN TwitchAnswers(game_id, game_name) ELSE {0}),
               igdb \in Answers,
               rawg \in (IF handler.rawg_api_key THEN Answers ELSE {NoOutcome}),
               write_ok \in BOOLEAN :
               LET twitch_metadata ==
                       fetch_from_twitch(handler.twitch_handler, answer)
                   metadata == fetch_from_igdb(game_name, igdb)
                   rawg_metadata ==
                       fetch_from_rawg(handler.rawg_api_key, game_name, rawg)
                   providers ==
                       [twitch |-> answer,
                        igdb |-> provider_answer(igdb,
                                     IF twitch_metadata # NoMetadata
                                     THEN fetch_from_igdb(twitch_metadata.game_name, igdb)
                                     ELSE metadata),
                        rawg |-> IF handler.rawg_api_key
                                 THEN provider_answer(rawg, rawg_metadata)
                                 ELSE None]
               IN IF twitch_metadata # NoMetadata
                  THEN return_metadata(game_name,
                           twitch_final(twitch_metadata, igdb), "success",
                           <<"twitch", "igdb">>, providers, write_ok)
                  ELSE IF metadata # NoMetadata
                  THEN return_metadata(game_name, metadata, "success",
                           t \o <<"igdb">>, providers, write_ok)
                  ELSE IF rawg_metadata # NoMetadata
                  THEN return_metadata(game_name, rawg_metadata, "success",
                           t \o <<"igdb">> \o w, providers, write_ok)
                  ELSE return_metadata(game_name, NoMetadata, "failed",
                           t \o <<"igdb">> \o w, providers, FALSE)

\* GameMetadataHandler.fetch_game_metadata, called on its own
fetch_game_metadata(raw_name, game_id) ==
    /\ fetch_game_metadata_call(raw_name, game_id)
    /\ UNCHANGED <<handler, discVars, schedVars, matchVars, pubVars, mgrVars>>

InitMeta ==
    /\ MgrIdle
    /\ handler \in [twitch_handler : BOOLEAN, rawg_api_key : BOOLEAN]
    /\ game_metadata = {}
    /\ resolution = [game_name |-> <<>>, metadata |-> NoMetadata, status |-> None,
                     calls |-> 0, again |-> FALSE, called |-> <<>>,
                     providers |-> NoProviders]
    /\ DiscIdle
    /\ SchedIdle
    /\ MatchIdle
    /\ PubIdle

NextMeta ==
    \E raw_name \in QueryNames, game_id \in {0} \cup TwitchGameIds :
        fetch_game_metadata(raw_name, game_id)

SpecMeta == InitMeta /\ [][NextMeta]_vars

\* the cache before a call: empty, or the row an earlier call has written
\* (Portal resolved by Twitch alone, Half-Life resolved by IGDB)
CachesBefore ==
    {{},
     {[game_name |-> Portal, source |-> "twitch", twitch_game_id |-> 12,
       igdb_id |-> 0, rawg_id |-> 0]},
     {[game_name |-> HalfLife, source |-> "igdb", twitch_game_id |-> 0,
       igdb_id |-> 2, rawg_id |-> 0]}}

InitResolve ==
    /\ MgrIdle
    /\ handler \in [twitch_handler : BOOLEAN, rawg_api_key : BOOLEAN]
    /\ game_metadata \in CachesBefore
    /\ resolution = [game_name |-> <<>>, metadata |-> NoMetadata, status |-> None,
                     calls |-> 0, again |-> FALSE, called |-> <<>>,
                     providers |-> NoProviders]
    /\ DiscIdle
    /\ SchedIdle
    /\ MatchIdle
    /\ PubIdle

\* one call of fetch_game_metadata
NextResolve ==
    /\ resolution.status = None
    /\ NextMeta

SpecResolve == InitResolve /\ [][NextResolve]_vars

\* C35: when Twitch has the game and IGDB or RAWG has an exact match for its
\* name, the result is a merged one (name and Twitch id from Twitch, details
\* from the matching secondary source); the Twitch-only result is returned
\* only when neither secondary source has an exact match.
C35_MergedWithSecondary ==
    (resolution.status = "success" /\ resolution.providers.twitch # 0) =>
        /\ resolution.metadata.game_name = twitch_name(resolution.providers.twitch)
        /\ resolution.metadata.twitch_game_id = resolution.providers.twitch
        /\ resolution.providers.igdb = "match" =>
               resolution.metadata.source = "twitch+igdb"
        /\ (resolution.providers.igdb # "match" /\ resolution.providers.rawg = "match") =>
               resolution.metadata.source = "twitch+rawg"
        /\ resolution.metadata.source = "twitch" =>
               (resolution.providers.igdb # "match" /\ resolution.providers.rawg # "match")

\* C36: a provider that fails counts as a provider without a match and the
\* resolver goes on to the next source; the call returns 'failed' only when
\* Twitch, IGDB and RAWG each failed or had no exact match, and then it
\* writes no cache row.
C36_ProviderErrorIsNoMatch ==
    [][resolution' # resolution =>
          LET r == resolution'
              p == resolution'.providers
          IN /\ r.status \in {"cached", "success", "failed"}
             /\ r.status = "failed" =>
                   /\ p.twitch = 0
                   /\ p.igdb \in {"error", "no_match"}
                   /\ p.rawg \in {"error", "no_match", None}
                   /\ r.metadata = NoMetadata
                   /\ game_metadata' = game_metadata
             /\ (r.status # "cached" /\ p.twitch # 0 /\ p.igdb = "error") =>
                   r.status = "success" /\ r.metadata.source = "twitch"
             /\ (r.status # "cached" /\ p.twitch = 0 /\ p.igdb = "match") =>
                   r.status = "success" /\ r.metadata.source = "igdb"
             /\ (r.status # "cached" /\ p.twitch = 0 /\ p.igdb # "match"
                    /\ p.rawg = "match") =>
                   r.status = "success" /\ r.metadata.source = "rawg"]_vars

\* every source was asked and none had the game: IGDB and RAWG failed
C36_Witness ==
    /\ resolution.status = "failed"
    /\ handler.twitch_handler
    /\ resolution.providers.igdb = "error"
    /\ resolution.providers.rawg = "error"

C6_SecondFromCache ==
    resolution.again => resolution.status = "cached" /\ resolution.calls = 0

(***************************************************************************)
(* Upload preparation, upload and publishing                               *)
(*                                                                         *)
(* The naive datetimes of this part (datetime.now(), scheduled_publish_at) *)
(* are minutes of the server's local wall clock from day 0 00:00; 0 stands *)
(* for an absent time.                                                     *)
(***************************************************************************)
MaxPubDay == 1      \* SpecPub: the clock runs over days 0..MaxPubDay

\* YouTubeHandler.default_privacy, YOUTUBE_DEFAULT_PRIVACY unset
default_privacy == "private"

PublishHour == 18
PublishWindowMinutes == 30

\* 18:00 of the day of the upload, whatever the hour
calculate_publish_time_sameday(upload_time) ==
    (upload_time \div MinutesPerDay) * MinutesPerDay + PublishHour * 60

calculate_publish_time(upload_time) ==
    LET publish_time == (upload_time \div MinutesPerDay) * MinutesPerDay
                            + PublishHour * 60
    IN IF (upload_time % MinutesPerDay) \div 60 >= PublishHour
       THEN publish_time + MinutesPerDay
       ELSE publish_time

\* a scan that does not look for the upload row of a download
RECURSIVE completed_downloads_all(_, _, _)
completed_downloads_all(dl, ups, i) ==
    IF i > Len(dl) THEN <<>>
    ELSE (IF dl[i].download_status = "completed" THEN <<i>> ELSE <<>>)
            \o completed_downloads_all(dl, ups, i + 1)

\* ids of the completed downloads that have no upload row, ascending
RECURSIVE completed_without_upload(_, _, _)
completed_without_upload(dl, ups, i) ==
    IF i > Len(dl) THEN <<>>
    ELSE (IF dl[i].download_status = "completed"
             /\ ~\E u \in DOMAIN ups : ups[u].vod_download_id = i
          THEN <<i>> ELSE <<>>) \o completed_without_upload(dl, ups, i + 1)

\* what preparing one download meets: metadata found, no metadata, or an
\* exception before the row is stored
PrepOutcomes == {"metadata", "no_metadata", "error"}

\* (the title of a stream is written as the id of its VOD)
\* a row that never asks for review
create_youtube_upload_noreview(ups, dl, id, game_metadata_found, upload_time) ==
    Append(ups,
        [stream_id |-> dl[id].stream_id,
         vod_download_id |-> id,
         video_title |-> streams[dl[id].stream_id].twitch_vod_id,
         privacy_status |-> default_privacy,
         upload_status |-> "queued",
         metadata_status |-> IF game_metadata_found THEN "ready" ELSE "failed",
         manual_review_required |-> FALSE,
         video_description |-> IF game_metadata_found THEN "full" ELSE "minimal",
         scheduled_publish_at |-> calculate_publish_time(upload_time),
         youtube_video_id |-> 0,
         error_message |-> None])

create_youtube_upload(ups, dl, id, game_metadata_found, upload_time) ==
    Append(ups,
        [stream_id |-> dl[id].stream_id,
         vod_download_id |-> id,
         video_title |-> streams[dl[id].stream_id].twitch_vod_id,
         privacy_status |-> default_privacy,
         upload_status |-> "queued",
         metadata_status |-> IF game_metadata_found THEN "ready" ELSE "failed",
         manual_review_required |-> ~game_metadata_found,
         video_description |-> IF game_metadata_found THEN "full" ELSE "minimal",
         scheduled_publish_at |-> calculate_publish_time(upload_time),
         youtube_video_id |-> 0,
         error_message |-> None])

\* a scan that stores no row for a download without metadata
RECURSIVE prepare_uploads_found(_, _, _, _)
prepare_uploads_found(todo, ups, dl, outcome) ==
    IF todo = <<>> THEN ups
    ELSE LET id == Head(todo)
         IN IF outcome[id] # "metadata"
            THEN prepare_uploads_found(Tail(todo), ups, dl, outcome)
            ELSE prepare_uploads_found(Tail(todo),
                     create_youtube_upload(ups, dl, id, TRUE, now), dl, outcome)

RECURSIVE prepare_uploads(_, _, _, _)
prepare_uploads(todo, ups, dl, outcome) ==
    IF todo = <<>> THEN ups
    ELSE LET id == Head(todo)
         IN IF outcome[id] = "error"
            THEN prepare_uploads(Tail(todo), ups, dl, outcome)
            ELSE prepare_uploads(Tail(todo),
                     create_youtube_upload(ups, dl, id, outcome[id] = "metadata", now),
                     dl, outcome)

\* the alert of a stored row that needs review; the video has no URL yet
RECURSIVE prepare_alerts(_, _, _)
prepare_alerts(todo, al, outcome) ==
    IF todo = <<>> THEN al
    ELSE prepare_alerts(Tail(todo),
             IF outcome[Head(todo)] = "no_metadata"
             THEN Append(al, [vod_download_id |-> Head(todo), youtube_url |-> 0])
             ELSE al,
             outcome)

\* YouTubeHandler.process_completed_downloads
process_completed_downloads(outcome) ==
    /\ completed_without_upload(downloads, uploads, 1) # <<>>
    /\ uploads' = prepare_uploads(completed_without_upload(downloads, uploads, 1),
                                  uploads, downloads, outcome)
    /\ alerts' = prepare_alerts(completed_without_upload(downloads, uploads, 1),
                                alerts, outcome)
    /\ UNCHANGED <<youtube, now, server_utcoffset>>
    /\ UNCHANGED <<discVars, schedVars, matchVars, metaVars, mgrVars, runs>>

\* what uploading one queued row meets
UploadOutcomes == {"ok", "no_file", "upload_fail"}

\* strftime('%Y-%m-%dT%H:%M:%S.000Z') of the naive scheduled time: the
\* wall-clock fields of the server's local time, marked as UTC
publish_at(scheduled_publish_at) ==
    [wall |-> scheduled_publish_at, tzinfo |-> "UTC", utcoffset |-> 0]

\* YouTubeUploader.upload_video: the video YouTube stores
upload_video(upload_record) ==
    [title |-> upload_record.video_title,
     privacyStatus |-> upload_record.privacy_status,
     publishAt |-> IF /\ upload_record.scheduled_publish_at # 0
                      /\ upload_record.privacy_status = "private"
                   THEN publish_at(upload_record.scheduled_publish_at)
                   ELSE NoTime,
     published_by |-> None]

mark_upload_failed(ups, id, msg) ==
    [ups EXCEPT ![id] = [@ EXCEPT !.upload_status = "failed", !.error_message = msg]]

\* the row is marked completed without the id of the video
mark_upload_completed_noid(ups, id, video_id) ==
    [ups EXCEPT ![id] = [@ EXCEPT !.upload_status = "completed"]]

mark_upload_completed(ups, id, video_id) ==
    [ups EXCEPT ![id] = [@ EXCEPT !.upload_status = "completed",
                                  !.youtube_video_id = video_id]]

\* the alert sent after the upload of a row that needs review, with the URL
\* of video video_id
upload_alert(al, upload_record, video_id) ==
    IF upload_record.manual_review_required
    THEN Append(al, [vod_download_id |-> upload_record.vod_download_id,
                     youtube_url |-> video_id])
    ELSE al

\* the loop of process_queued_uploads from row i on: <<uploads, youtube, alerts>>
RECURSIVE upload_queued(_, _, _, _, _)
upload_queued(i, ups, yt, al, outcome) ==
    IF i > Len(ups) THEN <<ups, yt, al>>
    ELSE IF ups[i].upload_status # "queued"
    THEN upload_queued(i + 1, ups, yt, al, outcome)
    ELSE CASE outcome[i] = "no_file" ->
                 upload_queued(i + 1,
                     mark_upload_failed(ups, i, "Failed to download from DO Spaces"),
                     yt, al, outcome)
           [] outcome[i] = "upload_fail" ->
                 upload_queued(i + 1,
                     mark_upload_failed(ups, i, "YouTube upload failed"),
                     yt, al, outcome)
           [] OTHER ->
                 upload_queued(i + 1,
                     mark_upload_completed(ups, i, Len(yt) + 1),
                     Append(yt, upload_video(ups[i])),
                     upload_alert(al, ups[i], Len(yt) + 1), outcome)

Queued == {i \in DOMAIN uploads : uploads[i].upload_status = "queued"}

\* YouTubeUploader.process_queued_uploads
process_queued_uploads(outcome) ==
    /\ Queued # {}
    /\ LET res == upload_queued(1, uploads, youtube, alerts, outcome)
       IN uploads' = res[1] /\ youtube' = res[2] /\ alerts' = res[3]
    /\ UNCHANGED <<now, server_utcoffset>>
    /\ UNCHANGED <<discVars, schedVars, matchVars, metaVars, mgrVars, runs>>

\* a query with no upper end of the window: every row not yet overdue
get_videos_to_publish_from(ups, t) ==
    {i \in DOMAIN ups :
        /\ ups[i].upload_status = "completed"
        /\ ups[i].privacy_status = "private"
        /\ ups[i].metadata_status = "ready"
        /\ ups[i].scheduled_publish_at >= t - PublishWindowMinutes}

\* a query with no lower end of the window: every row that is due
get_videos_to_publish_due(ups, t) ==
    {i \in DOMAIN ups :
        /\ ups[i].upload_status = "completed"
        /\ ups[i].privacy_status = "private"
        /\ ups[i].metadata_status = "ready"
        /\ ups[i].scheduled_publish_at <= t + PublishWindowMinutes}

\* YouTubePublisher.get_videos_to_publish: ids of the rows in the window
get_videos_to_publish(ups, t) ==
    {i \in DOMAIN ups :
        /\ ups[i].upload_status = "completed"
        /\ ups[i].privacy_status = "private"
        /\ ups[i].metadata_status = "ready"
        /\ ups[i].scheduled_publish_at >= t - PublishWindowMinutes
        /\ ups[i].scheduled_publish_at <= t + PublishWindowMinutes}

\* what publishing one video meets: the API call fails, the call succeeds,
\* or the call succeeds and the update of the row raises
PublishOutcomes == {"ok", "api_fail", "db_fail"}

\* YouTubePublisher.publish_video on the platform; published_by records who
\* made the video public
publish_video(yt, video_id, by) ==
    [yt EXCEPT ![video_id] =
        [@ EXCEPT !.privacyStatus = "public",
                  !.published_by = IF @ = None THEN by ELSE @]]

\* the rows of a publish scan that are published: they have a video and need
\* no review
to_publish(ups, ids, outcome) ==
    {i \in ids : /\ ups[i].youtube_video_id # 0
                 /\ ~ups[i].manual_review_required
                 /\ outcome[i] # "api_fail"}

\* a scan that writes public to the row before it calls the platform
scheduled_publishes_first(outcome) ==
    LET videos == get_videos_to_publish(uploads, now)
        done == to_publish(uploads, videos, outcome)
    IN [youtube |-> [v \in DOMAIN youtube |->
                        IF \E i \in done : uploads[i].youtube_video_id = v
                        THEN publish_video(youtube, v, "scan")[v]
                        ELSE youtube[v]],
        uploads |-> [i \in DOMAIN uploads |->
                        IF i \in videos /\ uploads[i].youtube_video_id # 0
                        THEN [uploads[i] EXCEPT !.privacy_status = "public"]
                        ELSE uploads[i]]]

\* the loop of process_scheduled_publishes over the rows of its query: the
\* videos and the table after it. A row is written only after publish_video
\* returned True for its video
scheduled_publishes(outcome) ==
    LET videos == get_videos_to_publish(uploads, now)
        done == to_publish(uploads, videos, outcome)
    IN [youtube |-> [v \in DOMAIN youtube |->
                        IF \E i \in done : uploads[i].youtube_video_id = v
                        THEN publish_video(youtube, v, "scan")[v]
                        ELSE youtube[v]],
        uploads |-> [i \in DOMAIN uploads |->
                        IF i \in done /\ outcome[i] = "ok"
                        THEN [uploads[i] EXCEPT !.privacy_status = "public"]
                        ELSE uploads[i]]]

\* YouTubePublisher.process_scheduled_publishes
process_scheduled_publishes(outcome) ==
    LET videos == get_videos_to_publish(uploads, now)
    IN /\ videos # {}
       /\ youtube' = scheduled_publishes(outcome).youtube
       /\ uploads' = scheduled_publishes(outcome).uploads
       /\ UNCHANGED <<alerts, now, server_utcoffset>>
       /\ UNCHANGED <<discVars, schedVars, matchVars, metaVars, mgrVars, runs>>

\* a manual publish that toggles the privacy of the row
publish_video_by_id_toggle(upload_id, outcome) ==
    /\ upload_id \in DOMAIN uploads
    /\ uploads[upload_id].youtube_video_id # 0
    /\ outcome # "api_fail"
    /\ youtube' = publish_video(youtube, uploads[upload_id].youtube_video_id, "manual")
    /\ uploads' = IF outcome = "ok"
                  THEN [uploads EXCEPT ![upload_id].privacy_status =
                            IF @ = "public" THEN "private" ELSE "public"]
                  ELSE uploads
    /\ UNCHANGED <<alerts, now, server_utcoffset>>
    /\ UNCHANGED <<discVars, schedVars, matchVars, metaVars, mgrVars, runs>>

\* YouTubePublisher.publish_video_by_id: the operator publishes one upload
publish_video_by_id(upload_id, outcome) ==
    /\ upload_id \in DOMAIN uploads
    /\ uploads[upload_id].youtube_video_id # 0
    /\ outcome # "api_fail"
    /\ youtube' = publish_video(youtube, uploads[upload_id].youtube_video_id, "manual")
    /\ uploads' = IF outcome = "ok"
                  THEN [uploads EXCEPT ![upload_id].privacy_status = "public"]
                  ELSE uploads
    /\ UNCHANGED <<alerts, now, server_utcoffset>>
    /\ UNCHANGED <<discVars, schedVars, matchVars, metaVars, mgrVars, runs>>

\* YouTube publishes a private video when its publishAt has come
youtube_scheduled_publish(video_id) ==
    /\ video_id \in DOMAIN youtube
    /\ youtube[video_id].privacyStatus = "private"
    /\ youtube[video_id].publishAt # NoTime
    /\ now - server_utcoffset >= timestamp(youtube[video_id].publishAt)
    /\ youtube' = publish_video(youtube, video_id, "youtube")
    /\ UNCHANGED <<uploads, alerts, now, server_utcoffset>>
    /\ UNCHANGED <<discVars, schedVars, matchVars, metaVars, mgrVars, runs>>

\* the times of day at which the server's clock is observed
TimesOfDay == {4 * 60, 13 * 60, 17 * 60 + 30, 18 * 60, 18 * 60 + 31, 22 * 60}
ClockTimes == {d * MinutesPerDay + m : d \in 0..MaxPubDay, m \in TimesOfDay}

\* time passes to the next observed instant
tick ==
    /\ \E t \in ClockTimes : t > now
    /\ now' = CHOOSE t \in ClockTimes : t > now /\ \A u \in ClockTimes : u > now => t <= u
    /\ UNCHANGED <<uploads, youtube, alerts, server_utcoffset>>
    /\ UNCHANGED <<discVars, schedVars, matchVars, metaVars, mgrVars, runs>>

\* the store after one scan discovered n VODs and a download scan stored
\* their files
completed_store(n) ==
    LET found_vods == SubSeq(<<"901", "902", "903">>, 1, n)
        res == create_records(found_vods, <<>>, <<>>, <<>>, [v \in VodIds |-> "ok"])
    IN /\ streams = res[1]
       /\ downloads = [i \in 1..n |->
                         mark_download_completed(res[2], i,
                                                 get_file_size_mb(10485760))[i]]
       /\ new_vods = res[3]
       /\ spaces = 1..n
       /\ lastDl = [id |-> n, success |-> TRUE, exists |-> TRUE, bytes |-> 10485760]
       /\ jobs = <<>> /\ current_stream_id = 0 /\ last_known_state = None
       /\ pending = <<>> /\ localFiles = {}

InitPub ==
    /\ MgrIdle
    /\ \E n \in {1, 2} : completed_store(n)
    /\ uploads = <<>> /\ youtube = <<>> /\ alerts = <<>>
    /\ runs = [p \in Processes |-> NoRun]
    /\ now = 4 * 60
    /\ server_utcoffset \in {0, EST}
    /\ SchedIdle
    /\ MatchIdle
    /\ MetaIdle

NextPub ==
    \/ \E outcome \in [Listed(completed_without_upload(downloads, uploads, 1))
                              -> PrepOutcomes] :
          process_completed_downloads(outcome)
    \/ \E outcome \in [Queued -> UploadOutcomes] :
          process_queued_uploads(outcome)
    \/ \E outcome \in [get_videos_to_publish(uploads, now) -> PublishOutcomes] :
          process_scheduled_publishes(outcome)
    \/ \E upload_id \in DOMAIN uploads, outcome \in PublishOutcomes :
          publish_video_by_id(upload_id, outcome)
    \/ \E video_id \in DOMAIN youtube : youtube_scheduled_publish(video_id)
    \/ tick

SpecPub == InitPub /\ [][NextPub]_vars

\* the clock runs on and every scan is run again and again: a scan that
\* stays possible is run, a publish scan that is possible again and again
\* is run
SpecPubFair ==
    /\ InitPub
    /\ [][NextPub]_vars
    /\ WF_vars(tick)
    /\ WF_vars(\E outcome \in [Listed(completed_without_upload(downloads, uploads, 1))
                                   -> PrepOutcomes] :
                  process_completed_downloads(outcome))
    /\ WF_vars(\E outcome \in [Queued -> UploadOutcomes] :
                  process_queued_uploads(outcome))
    /\ SF_vars(\E outcome \in [get_videos_to_publish(uploads, now) -> PublishOutcomes] :
                  process_scheduled_publishes(outcome))

(***************************************************************************)
(* Upload scans run by two processes at once                                *)
(*                                                                         *)
(* process_queued_uploads in the steps between which another process can   *)
(* act: the query of the queued rows, and for each row of the answer the   *)
(* file check with mark_upload_started, the upload, and                    *)
(* mark_upload_completed.                                                  *)
(***************************************************************************)
mark_upload_started(ups, id) ==
    [ups EXCEPT ![id] = [@ EXCEPT !.upload_status = "uploading"]]

\* upload ids of the rows with upload_status 'queued', in row order
RECURSIVE queued_from(_, _)
queued_from(ups, i) ==
    IF i > Len(ups) THEN <<>>
    ELSE IF ups[i].upload_status = "queued"
         THEN <<i>> \o queued_from(ups, i + 1)
         ELSE queued_from(ups, i + 1)

\* the loop of process p goes to the next row of its answer, or returns
next_row(p) ==
    [runs EXCEPT ![p] = IF Len(@.queued) > 1
                        THEN [pc |-> "loop", queued |-> Tail(@.queued), video_id |-> 0]
                        ELSE NoRun]

\* process p starts process_queued_uploads: the query of the queued rows
run_query(p) ==
    /\ runs[p].pc = "idle"
    /\ queued_from(uploads, 1) # <<>>
    /\ runs' = [runs EXCEPT ![p] = [pc |-> "loop",
                                    queued |-> queued_from(uploads, 1),
                                    video_id |-> 0]]
    /\ UNCHANGED <<uploads, youtube, alerts, now, server_utcoffset>>
    /\ UNCHANGED <<discVars, schedVars, matchVars, metaVars, mgrVars>>

\* the file of the next row is fetched and the row marked 'uploading'
run_start(p, outcome) ==
    /\ runs[p].pc = "loop"
    /\ LET id == Head(runs[p].queued) IN
       IF outcome = "no_file"
       THEN /\ uploads' = mark_upload_failed(uploads, id,
                                             "Failed to download from DO Spaces")
            /\ runs' = next_row(p)
       ELSE /\ uploads' = mark_upload_started(uploads, id)
            /\ runs' = [runs EXCEPT ![p].pc = "uploading"]
    /\ UNCHANGED <<youtube, alerts, now, server_utcoffset>>
    /\ UNCHANGED <<discVars, schedVars, matchVars, metaVars, mgrVars>>

\* upload_video for the row: YouTube stores a new video, or the upload fails
\* (the fields of the answer that upload_video reads are written by no step
\* of an upload scan, so the stored row stands for the row of the answer)
run_upload(p, outcome) ==
    /\ runs[p].pc = "uploading"
    /\ LET id == Head(runs[p].queued) IN
       IF outcome = "upload_fail"
       THEN /\ uploads' = mark_upload_failed(uploads, id, "YouTube upload failed")
            /\ runs' = next_row(p)
            /\ UNCHANGED youtube
       ELSE /\ youtube' = Append(youtube, upload_video(uploads[id]))
            /\ runs' = [runs EXCEPT ![p].pc = "uploaded",
                                    ![p].video_id = Len(youtube) + 1]
            /\ UNCHANGED uploads
    /\ UNCHANGED <<alerts, now, server_utcoffset>>
    /\ UNCHANGED <<discVars, schedVars, matchVars, metaVars, mgrVars>>

\* mark_upload_completed with the id of the new video, and the alert
run_complete(p) ==
    /\ runs[p].pc = "uploaded"
    /\ LET id == Head(runs[p].queued) IN
       /\ uploads' = mark_upload_completed(uploads, id, runs[p].video_id)
       /\ alerts' = upload_alert(alerts, uploads[id], runs[p].video_id)
    /\ runs' = next_row(p)
    /\ UNCHANGED <<youtube, now, server_utcoffset>>
    /\ UNCHANGED <<discVars, schedVars, matchVars, metaVars, mgrVars>>

NextUp ==
    \/ \E outcome \in [Listed(completed_without_upload(downloads, uploads, 1))
                              -> PrepOutcomes] :
          process_completed_downloads(outcome)
    \/ \E p \in Processes : run_query(p)
    \/ \E p \in Processes, outcome \in UploadOutcomes \ {"upload_fail"} :
          run_start(p, outcome)
    \/ \E p \in Processes, outcome \in UploadOutcomes \ {"no_file"} :
          run_upload(p, outcome)
    \/ \E p \in Processes : run_complete(p)

SpecUp == InitPub /\ [][NextUp]_vars

(***************************************************************************)
(* Upload scans run one after another by the pipeline's single worker, in  *)
(* the same steps                                                          *)
(***************************************************************************)
NextUpSeq ==
    \/ \E outcome \in [Listed(completed_without_upload(downloads, uploads, 1))
                              -> PrepOutcomes] :
          process_completed_downloads(outcome)
    \/ run_query(1)
    \/ \E outcome \in UploadOutcomes \ {"upload_fail"} : run_start(1, outcome)
    \/ \E outcome \in UploadOutcomes \ {"no_file"} : run_upload(1, outcome)
    \/ run_complete(1)

SpecUpSeq == InitPub /\ [][NextUpSeq]_vars

\* a step whose scan raises ends the run of the orchestrator
step_done_escapes(m, step, raised, next) ==
    IF raised THEN [m EXCEPT !.pc = "crashed"]
    ELSE [m EXCEPT !.pc = next,
                   !.steps = Append(@, [step |-> step, success |-> TRUE])]

\* the end of a run_* step of the orchestrator: its try/except returns the
\* stats of the scan with success True, or success False when the scan
\* raised, and the caller goes on to its next statement
step_done(m, step, raised, next) ==
    [m EXCEPT !.pc = next,
              !.steps = Append(@, [step |-> step, success |-> ~raised])]

(***************************************************************************)
(* AutomationOrchestrator.run_morning_pipeline                             *)
(*                                                                         *)
(* One run is step 1 and, when step 1 reports new VODs, the steps 2 to 5   *)
(* in sequence; morning.pc is the step the run is at.  Step 3 (metadata    *)
(* fetching) writes no row of the tables modelled here: what it found is   *)
(* the outcome of step 4.  Between runs the operator may run step 1 alone  *)
(* (--step vod).                                                           *)
(***************************************************************************)
\* step 1 and the test that follows it: run_vod_collection returns no
\* 'vods_found' when process_new_vods raises (step1_ok false)
morning_vod_collection(vods, step1_ok, outcome) ==
    /\ morning.pc = "idle"
    /\ LET unprocessed == filter_unprocessed(streams, vods)
           res == IF step1_ok
                  THEN create_records(sort_by_created_at(unprocessed),
                                      streams, downloads, <<>>, outcome)
                  ELSE <<streams, downloads, new_vods>>
           vods_found == IF step1_ok THEN Len(res[3]) ELSE 0
           started == NoMorning
       IN /\ streams' = res[1]
          /\ downloads' = res[2]
          /\ new_vods' = res[3]
          /\ morning' = IF vods_found > 0
                        THEN step_done(started, "vod_collection", ~step1_ok, "downloads")
                        ELSE [step_done(started, "vod_collection", ~step1_ok, "idle")
                                EXCEPT !.stats = "skipped"]
    /\ UNCHANGED <<jobs, current_stream_id, last_known_state, pending,
                   localFiles, spaces, lastDl>>
    /\ UNCHANGED <<schedVars, matchVars, metaVars, pubVars, broadcast, running, umVars>>

\* step 2 has visited every pending row: the run goes on to step 3
morning_downloads_done ==
    /\ morning.pc = "downloads"
    /\ pending = <<>>
    /\ get_pending_downloads(downloads) = <<>>
    /\ morning' = step_done(morning, "downloads", FALSE, "metadata")
    /\ UNCHANGED <<discVars, schedVars, matchVars, metaVars, pubVars, broadcast, running, umVars>>

\* step 2 when get_pending_downloads raises: no row is visited
morning_downloads_raised ==
    /\ morning.pc = "downloads"
    /\ pending = <<>>
    /\ get_pending_downloads(downloads) # <<>>
    /\ morning' = step_done(morning, "downloads", TRUE, "metadata")
    /\ UNCHANGED <<discVars, schedVars, matchVars, metaVars, pubVars, broadcast, running, umVars>>

\* step 3, the start of GameMetadataHandler.process_completed_downloads:
\* the query of the completed downloads, which raises or answers; with no
\* completed download the scan returns at once
morning_metadata_fetching(raised) ==
    /\ morning.pc = "metadata"
    /\ LET completed_downloads == completed_without_upload(downloads, <<>>, 1)
       IN morning' = IF raised \/ completed_downloads = <<>>
                     THEN step_done(morning, "metadata", raised, "youtube_prep")
                     ELSE [morning EXCEPT !.pc = "metadata_scan",
                                          !.scan = completed_downloads]
    /\ UNCHANGED <<discVars, schedVars, matchVars, metaVars, pubVars, broadcast, running, umVars>>

\* step 3, one completed download of the scan: the query for its upload row
\* raises and ends the scan, or a download without upload row has the game
\* of its stream resolved; after the last one the step returns
morning_metadata_item(raw_name, game_id, raised) ==
    /\ morning.pc = "metadata_scan"
    /\ LET id == Head(morning.scan)
           rest == [morning EXCEPT !.scan = Tail(@)]
           existing_upload == \E u \in DOMAIN uploads : uploads[u].vod_download_id = id
       IN /\ IF raised \/ existing_upload
             THEN UNCHANGED <<game_metadata, resolution>>
             ELSE fetch_game_metadata_call(raw_name, game_id)
          /\ morning' = IF raised
                        THEN step_done([morning EXCEPT !.scan = <<>>],
                                       "metadata", TRUE, "youtube_prep")
                        ELSE IF rest.scan = <<>>
                        THEN step_done(rest, "metadata", FALSE, "youtube_prep")
                        ELSE rest
    /\ UNCHANGED <<handler, discVars, schedVars, matchVars, pubVars, broadcast, running, umVars>>

\* step 4: YouTubeHandler.process_completed_downloads; it raises when its
\* query of the completed downloads does
morning_youtube_preparation(outcome, raised) ==
    /\ morning.pc = "youtube_prep"
    /\ IF raised
       THEN UNCHANGED <<uploads, alerts>>
       ELSE /\ uploads' = prepare_uploads(completed_without_upload(downloads, uploads, 1),
                                          uploads, downloads, outcome)
            /\ alerts' = prepare_alerts(completed_without_upload(downloads, uploads, 1),
                                        alerts, outcome)
    /\ morning' = step_done(morning, "youtube_prep", raised, "youtube_upload")
    /\ UNCHANGED <<youtube, runs, now, server_utcoffset>>
    /\ UNCHANGED <<discVars, schedVars, matchVars, metaVars, broadcast, running, umVars>>

\* step 5: YouTubeUploader.process_queued_uploads, and the end of the run;
\* it raises when its query of the queued uploads does
morning_youtube_upload(outcome, raised) ==
    /\ morning.pc = "youtube_upload"
    /\ IF raised
       THEN UNCHANGED <<uploads, youtube, alerts>>
       ELSE LET res == upload_queued(1, uploads, youtube, alerts, outcome)
            IN uploads' = res[1] /\ youtube' = res[2] /\ alerts' = res[3]
    /\ morning' = [step_done(morning, "youtube_upload", raised, "idle")
                     EXCEPT !.stats = "complete"]
    /\ UNCHANGED <<runs, now, server_utcoffset>>
    /\ UNCHANGED <<discVars, schedVars, matchVars, metaVars, broadcast, running, umVars>>

NextMorning ==
    \/ \E vods \in Listings :
          /\ Len(vods) <= MaxListing
          /\ Len(streams) + Len(vods) <= MaxDownloads
          /\ morning.pc = "idle"
          /\ \E outcome \in [Listed(vods) -> InsertOutcomes] :
                process_new_vods(vods, outcome)
    \/ \E vods \in Listings :
          /\ Len(vods) <= MaxListing
          /\ Len(streams) + Len(vods) <= MaxDownloads
          /\ \E step1_ok \in BOOLEAN, outcome \in [Listed(vods) -> InsertOutcomes] :
                morning_vod_collection(vods, step1_ok, outcome)
    \/ morning.pc = "downloads" /\ process_pending_downloads
    \/ morning.pc = "downloads" /\ download_vod_start
    \/ \E o \in DownloadOutcomes : morning.pc = "downloads" /\ download_vod(o)
    \/ morning_downloads_done
    \/ morning_downloads_raised
    \/ \E raised \in BOOLEAN : morning_metadata_fetching(raised)
    \/ \E raw_name \in {HalfLife, Portal}, raised \in BOOLEAN :
          morning_metadata_item(raw_name, 0, raised)
    \/ \E outcome \in [Listed(completed_without_upload(downloads, uploads, 1))
                              -> PrepOutcomes], raised \in BOOLEAN :
          morning_youtube_preparation(outcome, raised)
    \/ \E outcome \in [Queued -> UploadOutcomes], raised \in BOOLEAN :
          morning_youtube_upload(outcome, raised)

SpecMorning == Init /\ [][NextMorning]_vars

(***************************************************************************)
(* The drivers: the orchestrator running its six steps (the morning        *)
(* pipeline and the evening pipeline) and the detector polling, each step   *)
(* with the scans that raise                                               *)
(***************************************************************************)
MaxDriverStreams == 1   \* SpecDriver: rows of table streams

\* step 6, the evening pipeline: YouTubePublisher.process_scheduled_publishes,
\* whose query failure is an empty answer and whose loop catches what a row
\* raises
run_youtube_publishing(outcome) ==
    /\ morning.pc = "idle"
    /\ youtube' = scheduled_publishes(outcome).youtube
    /\ uploads' = scheduled_publishes(outcome).uploads
    /\ morning' = [step_done(NoMorning, "youtube_publish", FALSE, "idle")
                     EXCEPT !.stats = "evening"]
    /\ UNCHANGED <<alerts, runs, now, server_utcoffset>>
    /\ UNCHANGED <<discVars, schedVars, matchVars, metaVars, broadcast, running, umVars>>

\* the listings of a collection step: no VOD, or the newest of the channel
DriverListings == {<<>>, <<"901">>}

\* a download that fails, and one that stores its file
DriverDownloadOutcomes ==
    {o \in DownloadOutcomes :
        o.success = o.exists /\ o.bytes \in {0, 10485760} /\ o.spaces_ok}

\* the time of the evening pipeline on the day of the morning run
EveningTime == 18 * 60

\* the day goes on to the time of the evening pipeline
evening ==
    /\ morning.pc = "idle"
    /\ now < EveningTime
    /\ now' = EveningTime
    /\ UNCHANGED <<uploads, youtube, alerts, runs, server_utcoffset>>
    /\ UNCHANGED <<discVars, schedVars, matchVars, metaVars, mgrVars>>

NextDriver ==
    \/ \E vods \in DriverListings :
          /\ Len(streams) + Len(vods) <= MaxDriverStreams
          /\ \E step1_ok \in BOOLEAN, outcome \in [Listed(vods) -> InsertOutcomes] :
                morning_vod_collection(vods, step1_ok, outcome)
    \/ morning.pc = "downloads" /\ process_pending_downloads
    \/ morning.pc = "downloads" /\ download_vod_start
    \/ \E o \in DriverDownloadOutcomes : morning.pc = "downloads" /\ download_vod(o)
    \/ morning_downloads_done
    \/ morning_downloads_raised
    \/ \E raised \in BOOLEAN : morning_metadata_fetching(raised)
    \/ \E raised \in BOOLEAN : morning_metadata_item(HalfLife, 0, raised)
    \/ \E outcome \in [Listed(completed_without_upload(downloads, uploads, 1))
                              -> PrepOutcomes], raised \in BOOLEAN :
          morning_youtube_preparation(outcome, raised)
    \/ \E outcome \in [Queued -> UploadOutcomes], raised \in BOOLEAN :
          morning_youtube_upload(outcome, raised)
    \/ \E outcome \in [get_videos_to_publish(uploads, now) -> PublishOutcomes] :
          run_youtube_publishing(outcome)
    \/ evening
    \/ \E current_stream \in {"101", None}, db \in PollOutcomes :
          /\ Len(streams) < MaxDriverStreams \/ current_stream = None
          /\ check_stream_status(current_stream, db)

SpecDriver == Init /\ [][NextDriver]_vars

(***************************************************************************)
(* UploadManager                                                           *)
(*                                                                         *)
(* run_scan_cycle queues the streams it takes for completed; the worker    *)
(* thread takes the jobs from the in-memory queue one at a time.  The rows *)
(* of 'processing_jobs' that the manager inserts carry the attempts and    *)
(* max_attempts that create_processing_job writes.                         *)
(***************************************************************************)
MaxManagerStreams == 2  \* SpecManager: broadcasts of the channel
MaxJobs == 4            \* SpecManager: rows of 'processing_jobs'

\* check_for_completed_streams: the rows with ended_at and processed_at
\* null that _is_stream_ended takes for ended (started more than 6 hours
\* ago: the rows of old), in row order
RECURSIVE completed_from(_, _, _, _)
completed_from(ss, done, old, i) ==
    IF i > Len(ss) THEN <<>>
    ELSE (IF ss[i].ended_at = None /\ i \notin done /\ i \in old
          THEN <<i>> ELSE <<>>) \o completed_from(ss, done, old, i + 1)

check_for_completed_streams(old) == completed_from(streams, processed_at, old, 1)

\* the row queue_stream_for_processing inserts
queued_job(js, stream) ==
    [create_processing_job(js, stream, "youtube_upload") EXCEPT ![Len(js) + 1].status = "queued"]

\* the loop of run_scan_cycle: <<processing_jobs, upload_queue>>
RECURSIVE queue_stream_for_processing(_, _, _)
queue_stream_for_processing(todo, js, q) ==
    IF todo = <<>> THEN <<js, q>>
    ELSE queue_stream_for_processing(Tail(todo), queued_job(js, Head(todo)),
             Append(q, [job_id |-> Len(js) + 1, stream |-> Head(todo)]))

run_scan_cycle(old) ==
    /\ check_for_completed_streams(old) # <<>>
    /\ LET res == queue_stream_for_processing(check_for_completed_streams(old),
                                              jobs, manager.upload_queue)
       IN /\ jobs' = res[1]
          /\ manager' = [manager EXCEPT !.upload_queue = res[2]]
    /\ UNCHANGED <<streams, downloads, current_stream_id, last_known_state,
                   new_vods, pending, localFiles, spaces, lastDl>>
    /\ UNCHANGED <<schedVars, matchVars, metaVars, pubVars, morning, broadcast, running,
                   processed_at, table_uploads>>

_update_job_status(js, job_id, status) ==
    [js EXCEPT ![job_id].status = status]

\* the worker takes the next job from the queue: process_upload_job up to
\* the processing of the VOD
process_upload_job_start ==
    /\ manager.job = NoJob
    /\ manager.upload_queue # <<>>
    /\ manager' = [upload_queue |-> Tail(manager.upload_queue),
                   job |-> Head(manager.upload_queue)]
    /\ jobs' = _update_job_status(jobs, Head(manager.upload_queue).job_id, "processing")
    /\ UNCHANGED <<streams, downloads, current_stream_id, last_known_state,
                   new_vods, pending, localFiles, spaces, lastDl>>
    /\ UNCHANGED <<schedVars, matchVars, metaVars, pubVars, morning, broadcast, running,
                   processed_at, table_uploads>>

\* what processing the VOD of a job meets
JobOutcomes == {"ok", "processing_failed", "upload_failed"}

\* the rest of process_upload_job
process_upload_job(outcome) ==
    /\ manager.job # NoJob
    /\ LET job_id == manager.job.job_id
           stream == manager.job.stream
       IN IF outcome = "ok"
          THEN /\ youtube' = Append(youtube,
                                    [title |-> streams[stream].twitch_stream_id,
                                     privacyStatus |-> "private",
                                     publishAt |-> NoTime, published_by |-> None])
               /\ table_uploads' = Append(table_uploads,
                                          [stream_id |-> stream,
                                           video_id |-> Len(youtube) + 1,
                                           status |-> "uploaded",
                                           privacy_status |-> "private"])
               /\ processed_at' = processed_at \cup {stream}
               /\ jobs' = _update_job_status(jobs, job_id, "completed")
          ELSE /\ jobs' = _update_job_status(jobs, job_id, "failed")
               /\ UNCHANGED <<youtube, table_uploads, processed_at>>
    /\ manager' = [manager EXCEPT !.job = NoJob]
    /\ UNCHANGED <<streams, downloads, current_stream_id, last_known_state,
                   new_vods, pending, localFiles, spaces, lastDl>>
    /\ UNCHANGED <<schedVars, matchVars, metaVars, morning, broadcast, running>>
    /\ UNCHANGED <<uploads, alerts, runs, now, server_utcoffset>>

NextManager ==
    \/ \E s \in BroadcastIds :
          Cardinality(broadcast.past) < MaxManagerStreams /\ broadcast_starts(s)
    \/ broadcast_ends
    \/ \E api_ok \in BOOLEAN, db \in PollOutcomes : poll(api_ok, db)
    \/ \E old \in SUBSET DOMAIN streams :
          /\ Len(jobs) + Len(check_for_completed_streams(old)) <= MaxJobs
          /\ run_scan_cycle(old)
    \/ process_upload_job_start
    \/ \E outcome \in JobOutcomes : process_upload_job(outcome)

SpecManager == Init /\ [][NextManager]_vars

\* C2: the video of an upload row that requires manual review is public only
\* if the operator published it: neither the publish scan nor a publish time
\* given to YouTube at upload makes it public.
C2_ReviewNeverAutoPublished ==
    \A i \in DOMAIN uploads :
        (uploads[i].manual_review_required /\ uploads[i].youtube_video_id # 0)
        => LET video == youtube[uploads[i].youtube_video_id]
           IN video.privacyStatus = "public" => video.published_by = "manual"

\* C11: the privacy status of an upload row only goes from private to public:
\* no step of preparation, upload, publish scan or manual publish removes a
\* row or makes a public row private again.
C11_PrivacyOnlyForward ==
    [][\A i \in DOMAIN uploads :
          uploads[i].privacy_status = "public"
          => i \in DOMAIN uploads' /\ uploads'[i].privacy_status = "public"]_vars

\* a public row whose video the operator published
C11_Witness ==
    \E i \in DOMAIN uploads :
        /\ uploads[i].privacy_status = "public"
        /\ youtube[uploads[i].youtube_video_id].published_by = "manual"

\* C12: in every upload row manual_review_required is true exactly when
\* metadata_status is 'failed' and false exactly when it is 'ready', in the
\* scan that creates the row and after every later scan.
C12_ReviewIffMetadataFailed ==
    \A i \in DOMAIN uploads :
        /\ uploads[i].metadata_status \in {"ready", "failed"}
        /\ uploads[i].manual_review_required <=> uploads[i].metadata_status = "failed"
        /\ ~uploads[i].manual_review_required <=> uploads[i].metadata_status = "ready"

\* one scan stored a row with metadata and a row without, and an upload scan
\* has run since
C12_Witness ==
    \E i, j \in DOMAIN uploads :
        /\ uploads[i].manual_review_required /\ uploads[i].metadata_status = "failed"
        /\ ~uploads[j].manual_review_required /\ uploads[j].metadata_status = "ready"
        /\ uploads[i].upload_status # "queued"

\* the conditions under which the publish scan run at the time now may make
\* row i public
C13_Eligible(i) ==
    /\ uploads[i].upload_status = "completed"
    /\ uploads[i].privacy_status = "private"
    /\ uploads[i].metadata_status = "ready"
    /\ ~uploads[i].manual_review_required
    /\ uploads[i].youtube_video_id # 0
    /\ uploads[i].scheduled_publish_at >= now - PublishWindowMinutes
    /\ uploads[i].scheduled_publish_at <= now + PublishWindowMinutes

PublishScanStep ==
    \E outcome \in [get_videos_to_publish(uploads, now) -> PublishOutcomes] :
        process_scheduled_publishes(outcome)

\* C13: a publish scan makes a row public only if, when the scan runs, the row
\* is completed, private, metadata-ready, not flagged for review, has a video
\* id and is scheduled inside [now - w, now + w]; every other row is left as
\* it was.
C13_PublishOnlyEligible ==
    [][PublishScanStep =>
          \A i \in DOMAIN uploads :
              /\ (uploads[i].privacy_status # "public"
                    /\ uploads'[i].privacy_status = "public") => C13_Eligible(i)
              /\ ~C13_Eligible(i) => uploads'[i] = uploads[i]]_vars

\* the scan published a video while another completed row stayed private
C13_Witness ==
    \E i, j \in DOMAIN uploads :
        /\ uploads[i].privacy_status = "public"
        /\ youtube[uploads[i].youtube_video_id].published_by = "scan"
        /\ uploads[j].upload_status = "completed"
        /\ uploads[j].privacy_status = "private"

\* C14: a publish scan makes a row public only at a time that is not earlier
\* than the row's scheduled_publish_at.
C14_NotBeforeSchedule ==
    [][PublishScanStep =>
          \A i \in DOMAIN uploads :
              (uploads[i].privacy_status # "public"
                 /\ uploads'[i].privacy_status = "public")
              => now >= uploads[i].scheduled_publish_at]_vars

\* C14 as amended: a publish scan makes a row public only at a time that is
\* not earlier than the row's scheduled_publish_at minus the width of the
\* scan's window.
C14_NotBeforeWindow ==
    [][PublishScanStep =>
          \A i \in DOMAIN uploads :
              (uploads[i].privacy_status # "public"
                 /\ uploads'[i].privacy_status = "public")
              => now >= uploads[i].scheduled_publish_at - PublishWindowMinutes]_vars

\* the scan has made a row public in the early half of its window
C14_Witness ==
    \E i \in DOMAIN uploads :
        /\ uploads[i].privacy_status = "public"
        /\ youtube[uploads[i].youtube_video_id].published_by = "scan"
        /\ now < uploads[i].scheduled_publish_at
        /\ now >= uploads[i].scheduled_publish_at - PublishWindowMinutes

\* C15: the scheduled_publish_at of a new upload row is not earlier than the
\* time at which it was computed (18:00 of the same day when the hour is
\* below 18, 18:00 of the next day otherwise), and no later step, a second
\* preparation scan included, changes the stored schedule of a row.
C15_ScheduleNotBeforeNow ==
    [][\A i \in DOMAIN uploads' :
          IF i \in DOMAIN uploads
          THEN uploads'[i].scheduled_publish_at = uploads[i].scheduled_publish_at
          ELSE LET day == now \div MinutesPerDay
                   hr == (now % MinutesPerDay) \div 60
               IN /\ uploads'[i].scheduled_publish_at >= now
                  /\ uploads'[i].scheduled_publish_at =
                        IF hr < 18 THEN day * MinutesPerDay + 18 * 60
                        ELSE (day + 1) * MinutesPerDay + 18 * 60]_vars

\* two preparation scans stored rows, the later one for the next day
C15_Witness ==
    \E i, j \in DOMAIN uploads :
        /\ i < j
        /\ uploads[i].scheduled_publish_at = 18 * 60
        /\ uploads[j].scheduled_publish_at = MinutesPerDay + 18 * 60

\* the videos on YouTube that were uploaded for row i
VideosOf(i) ==
    {v \in DOMAIN youtube : youtube[v].title = uploads[i].video_title}

\* C19: however two upload scans interleave over a queued row, its video is
\* uploaded to YouTube at most once, and the row ends with the id of that
\* one video.
C19_UploadedAtMostOnce ==
    \A i \in DOMAIN uploads :
        /\ Cardinality(VideosOf(i)) <= 1
        /\ uploads[i].youtube_video_id # 0 => VideosOf(i) = {uploads[i].youtube_video_id}

\* C20: a completed, private, metadata-ready upload row whose publish time
\* has gone by without a publish scan, because the scan of that time did not
\* run or the upload was completed later, is made public by a later publish
\* scan.
C20_LatePublishCatchesUp ==
    \A i \in 1..2 :
        []((/\ i \in DOMAIN uploads
            /\ uploads[i].upload_status = "completed"
            /\ uploads[i].privacy_status = "private"
            /\ uploads[i].metadata_status = "ready"
            /\ now > uploads[i].scheduled_publish_at)
           => <>(i \in DOMAIN uploads /\ uploads[i].privacy_status = "public"))

\* the alerts sent for download id before its video had a URL
PrepAlerts(al, id) ==
    {k \in DOMAIN al : al[k].vod_download_id = id /\ al[k].youtube_url = 0}

\* C17: when no metadata is found for a completed download, the preparation
\* scan still stores its upload row, queued, with manual_review_required true,
\* metadata_status 'failed' and the minimal description, and sends one alert
\* to the operator; an upload scan that succeeds for a queued row uploads it
\* whether or not it needs review.
C17_NotFoundStillQueued ==
    [][/\ \A outcome \in [Listed(completed_without_upload(downloads, uploads, 1))
                              -> PrepOutcomes] :
             process_completed_downloads(outcome)
             => \A id \in DOMAIN outcome :
                    outcome[id] = "no_metadata"
                    => /\ \E i \in DOMAIN uploads' \ DOMAIN uploads :
                              /\ uploads'[i].vod_download_id = id
                              /\ uploads'[i].upload_status = "queued"
                              /\ uploads'[i].manual_review_required
                              /\ uploads'[i].metadata_status = "failed"
                              /\ uploads'[i].video_description = "minimal"
                       /\ Cardinality(PrepAlerts(alerts', id))
                              = Cardinality(PrepAlerts(alerts, id)) + 1
                       /\ Len(alerts') <= Len(alerts) + Cardinality(DOMAIN outcome)
       /\ \A outcome \in [Queued -> UploadOutcomes] :
             process_queued_uploads(outcome)
             => \A i \in Queued :
                    outcome[i] = "ok"
                    => /\ uploads'[i].upload_status = "completed"
                       /\ uploads'[i].youtube_video_id \in DOMAIN youtube'
                                                          \ DOMAIN youtube]_vars

\* a row stored without metadata has been uploaded: its two alerts are out
C17_Witness ==
    \E i \in DOMAIN uploads :
        /\ uploads[i].manual_review_required
        /\ uploads[i].video_description = "minimal"
        /\ uploads[i].upload_status = "completed"
        /\ Cardinality(PrepAlerts(alerts, uploads[i].vod_download_id)) = 1
        /\ \E k \in DOMAIN alerts :
              /\ alerts[k].vod_download_id = uploads[i].vod_download_id
              /\ alerts[k].youtube_url = uploads[i].youtube_video_id


\* the change of the upload status of row i in one step
UploadChange(i) == <<uploads[i].upload_status, uploads'[i].upload_status>>

Leftover ==
    \/ get_pending_downloads(downloads) # <<>>
    \/ completed_without_upload(downloads, uploads, 1) # <<>>
    \/ Queued # {}

\* C24: a morning pipeline run that starts while work of an earlier run is
\* left over goes on to its download, preparation and upload steps, whatever
\* its discovery step finds and whether or not it succeeds.
C24_LeftoverReconsidered ==
    [][(morning.pc = "idle" /\ morning' # morning /\ Leftover)
          => morning'.pc = "downloads"]_vars


\* the youtube_upload jobs of stream row i that are not failed
UploadJobsOf(i) ==
    {j \in DOMAIN jobs : /\ jobs[j].stream_id = i
                          /\ jobs[j].job_type = "youtube_upload"
                          /\ jobs[j].status \in {"queued", "processing", "completed"}}

\* C28: a stream has at most one youtube_upload job that is queued,
\* processing or completed, however often run_scan_cycle runs, and no stream
\* is uploaded twice.
C28_OneUploadJobPerStream ==
    \A i \in DOMAIN streams :
        /\ Cardinality(UploadJobsOf(i)) <= 1
        /\ Cardinality({u \in DOMAIN table_uploads : table_uploads[u].stream_id = i}) <= 1

\* C29: every attempt of a job adds one to its attempts, which never exceed
\* max_attempts, and a job that fails with attempts left is put back to be
\* attempted again.
C29_BoundedRetry ==
    [][\A j \in DOMAIN jobs :
          /\ (jobs[j].status # "processing" /\ jobs'[j].status = "processing")
                => /\ jobs'[j].attempts = jobs[j].attempts + 1
                   /\ jobs'[j].attempts <= jobs'[j].max_attempts
          /\ (/\ jobs[j].status # "failed" /\ jobs'[j].status = "failed"
              /\ jobs'[j].attempts < jobs'[j].max_attempts)
                => \E k \in DOMAIN manager'.upload_queue :
                       manager'.upload_queue[k].job_id = j]_vars

\* a step of the orchestrator whose scan raises
ScanRaises ==
    \/ /\ morning.pc = "idle"
       /\ morning'.stats = "skipped"
       /\ \E vods \in DriverListings :
             \E outcome \in [Listed(vods) -> InsertOutcomes] :
                   morning_vod_collection(vods, FALSE, outcome)
    \/ morning_downloads_raised
    \/ morning_metadata_fetching(TRUE)
    \/ morning.pc = "metadata_scan" /\ morning_metadata_item(HalfLife, 0, TRUE)
    \/ /\ morning.pc = "youtube_prep"
       /\ \E outcome \in [Listed(completed_without_upload(downloads, uploads, 1))
                                 -> PrepOutcomes] :
             morning_youtube_preparation(outcome, TRUE)
    \/ /\ morning.pc = "youtube_upload"
       /\ \E outcome \in [Queued -> UploadOutcomes] :
             morning_youtube_upload(outcome, TRUE)

\* where the orchestrator is after a step has returned
AfterStep == {"idle", "downloads", "metadata", "youtube_prep", "youtube_upload"}

\* C38: no scan's exception leaves its driver. A step of the orchestrator
\* whose scan raises returns a result with success False and the run goes on
\* with what follows the step; a result has success True only if the scan
\* did not raise; a poll of the detector whose storage call raises changes
\* nothing and leaves the monitoring loop running for the next poll.
C38_ScanExceptionsContained ==
    [][/\ ScanRaises
           => /\ morning'.steps # <<>>
              /\ ~morning'.steps[Len(morning'.steps)].success
              /\ morning'.pc \in AfterStep
       /\ (/\ morning'.steps # morning.steps
           /\ morning'.steps # <<>>
           /\ morning'.steps[Len(morning'.steps)].success)
           => ~ScanRaises
       /\ \A current_stream \in {"101", None}, db \in PollOutcomes :
             (morning' = morning /\ check_stream_status(current_stream, db))
                => /\ running'
                   /\ poll_raises(current_stream, db)
                         => UNCHANGED <<streams, jobs, current_stream_id,
                                        last_known_state>>]_vars

\* a morning run is over in which the download step raised and the steps
\* after it were run, the last of them with success
C38_Witness ==
    /\ morning.pc = "idle"
    /\ morning.stats = "complete"
    /\ Len(morning.steps) = 5
    /\ morning.steps[2] = [step |-> "downloads", success |-> FALSE]
    /\ morning.steps[5] = [step |-> "youtube_upload", success |-> TRUE]
    /\ running

\* C39: an upload row becomes public only in a step after which its video is
\* public on the platform, and only if it has a video id; a row of the publish
\* scan whose publish_video call fails, or that has no video id, is left as
\* it was, privacy_status private included.
C39_PublicOnlyAfterPlatform ==
    [][/\ \A i \in DOMAIN uploads :
             (uploads[i].privacy_status = "private"
                /\ uploads'[i].privacy_status = "public")
             => /\ uploads[i].youtube_video_id # 0
                /\ youtube'[uploads[i].youtube_video_id].privacyStatus = "public"
       /\ \A outcome \in [get_videos_to_publish(uploads, now) -> PublishOutcomes] :
             process_scheduled_publishes(outcome)
             => \A i \in get_videos_to_publish(uploads, now) :
                    (outcome[i] = "api_fail" \/ uploads[i].youtube_video_id = 0)
                    => /\ uploads'[i] = uploads[i]
                       /\ uploads'[i].privacy_status = "private"]_vars

\* a publish scan made one row public and left private a row of the same
\* schedule whose video is still private on the platform
C39_Witness ==
    \E i, j \in DOMAIN uploads :
        /\ uploads[i].privacy_status = "public"
        /\ youtube[uploads[i].youtube_video_id].published_by = "scan"
        /\ uploads[j].upload_status = "completed"
        /\ uploads[j].metadata_status = "ready"
        /\ uploads[j].scheduled_publish_at = uploads[i].scheduled_publish_at
        /\ uploads[j].privacy_status = "private"
        /\ youtube[uploads[j].youtube_video_id].privacyStatus = "private"

\* the upload rows of download id
UploadsOf(ups, id) == {u \in DOMAIN ups : ups[u].vod_download_id = id}

\* C40: a download never has more than one upload row and never more than
\* one manual-review alert from the preparation scan, however often the scan
\* runs; after a run of the scan every completed download that had a row, or
\* whose preparation did not raise in this run, has exactly one row.
C40_OneUploadPerDownload ==
    [][/\ \A id \in DOMAIN downloads' :
             /\ Cardinality(UploadsOf(uploads', id)) <= 1
             /\ Cardinality(PrepAlerts(alerts', id)) <= 1
       /\ \A outcome \in [Listed(completed_without_upload(downloads, uploads, 1))
                                -> PrepOutcomes] :
             process_completed_downloads(outcome)
             => \A id \in DOMAIN downloads :
                    (/\ downloads[id].download_status = "completed"
                     /\ (UploadsOf(uploads, id) # {} \/ outcome[id] # "error"))
                    => Cardinality(UploadsOf(uploads', id)) = 1]_vars

\* two scans stored the rows of two downloads: the first download's
\* preparation raised in the scan that stored the row of the second, a later
\* scan stored its row without metadata and sent its one alert
C40_Witness ==
    /\ Len(uploads) = 2
    /\ uploads[1].vod_download_id = 2
    /\ uploads[2].vod_download_id = 1
    /\ uploads[2].manual_review_required
    /\ Cardinality(PrepAlerts(alerts, 1)) = 1

====
